---- MODULE Spec2Model ----
(***************************************************************************)
(* Model of the OOMOL Fusion SDK client.                                   *)
(*                                                                         *)
(*   Spec        the task poller: run() / waitFor() of OomolFusionSDK,     *)
(*               i.e. submitTask, waitForResult (the poll closure) and     *)
(*               checkTaskStatus.                                          *)
(*   SpecUpload  the upload entry point uploadFile(): threshold default,   *)
(*               strategy selection, construction of the uploader.         *)
(*   SpecLive    the poller under weak fairness, for clients whose         *)
(*               timeout fits in the bound on status reads.                *)
(*   SpecMultipart  MultipartUploader.upload(): slicing, signed URLs,      *)
(*               batched part PUTs, finalize.                              *)
(*   SpecSingle  SingleFileUploader.upload(): init request, POST attempts  *)
(*               with backoff.                                             *)
(*   SpecNaming  getFileSuffix / getContentType of both uploaders.         *)
(*   SpecConcurrent  two invocations in progress on one client.            *)
(*   SpecLoops   the loops of sliceFile and uploadChunksConcurrently for    *)
(*               every part size and concurrency option.                   *)
(*                                                                         *)
(* Time is the value of Date.now() in abstract milliseconds.  It advances  *)
(* only at the suspension points of the code: while a request is in        *)
(* flight (by the latency of that request) and while the re-poll timer is  *)
(* armed (by the polling interval).  The progress callback is a recorder:  *)
(* it appends what it is called with to progressLog and returns.           *)
(***************************************************************************)
EXTENDS Integers, Sequences, FiniteSets, TLC

\* ------------------------------------------------------------------ bounds
MaxReads == 3
MaxLatency == 2

\* --------------------------------------------------------- program constants
DEFAULT_POLLING_INTERVAL == 2000
DEFAULT_TIMEOUT == 300000
DEFAULT_MULTIPART_THRESHOLD == 5 * 1024 * 1024
MAX_FILE_SIZE == 500 * 1024 * 1024

\* ------------------------------------------------------------- JS primitives
\* "undefined" stands for an absent property; "empty" for the empty string.
Undefined == "undefined"
EmptyString == "empty"

\* JavaScript truthiness of a string-valued property: undefined and "" are
\* falsy, every other string is truthy.
Truthy(v) == v # Undefined /\ v # EmptyString

\* a || b for strings
OrElse(a, b) == IF Truthy(a) THEN a ELSE b

\* a || b for a numeric option; an omitted option is written 0, which is
\* falsy like undefined, every other number (negative ones too) is truthy.
NumOrElse(a, b) == IF a # 0 THEN a ELSE b

\* An optional number: <<>> when the property is absent, <<n>> when present.
None == <<>>
Some(n) == <<n>>

\* Response.ok: the status is in the range 200-299.
ResponseOk(status) == status >= 200 /\ status <= 299

\* ------------------------------------------------------------ poller inputs
SessionIDs == {"sess-1"}
Services == {"svc"}
TimeoutOptions == {0, 2, 3}
IntervalOptions == {0, 1, 2}
Latencies == 0..MaxLatency
HttpStatuses == {200, 404, 500}
OkStatuses == {st \in HttpStatuses : ResponseOk(st)}

NonTerminalStates == {"pending", "processing", "queued"}
FailureStates == {"failed", "error"}
ProgressValues == {None, Some(0), Some(100)}
DataValues == {Undefined, EmptyString, "payload"}
ErrorValues == {Undefined, EmptyString, "boom"}

\* TaskResultResponse bodies.  The service sends data with a completed task
\* and an error message with a failed one; progress may come with any state.
TaskResultResponses ==
    [state : NonTerminalStates, data : {Undefined}, error : {Undefined},
     progress : ProgressValues]
    \cup [state : {"completed"}, data : DataValues, error : {Undefined},
          progress : ProgressValues]
    \cup [state : FailureStates, data : {Undefined}, error : ErrorValues,
          progress : ProgressValues]

NoResponse == [state |-> "none", data |-> Undefined, error |-> Undefined,
               progress |-> None]

VARIABLES
    config,       \* the client's fields: timeout, pollingInterval
    onProgress,   \* TRUE when the caller supplied a progress callback
    entry,        \* "run" or "waitFor"
    pc,           \* position of the call
    now,          \* Date.now()
    startTime,    \* startTime of waitForResult
    sessionID,    \* sessionID the wait polls
    service,      \* service the wait polls
    reads,        \* status reads issued so far
    submitFetch,  \* what the submit request of run() came back with
    lastFetch,    \* what the last settled status request came back with
    lastLatency,  \* latency of the last status read that returned
    issuedAt,     \* elapsed time when the last status read was issued
    nonTerminal,  \* status reads that returned a non-terminal state
    progressLog,  \* calls of the progress callback, in order
    outcome,      \* how the call settled
    upload,       \* the uploadFile call (SpecUpload)
    multipart,    \* the MultipartUploader.upload call (SpecMultipart)
    single,       \* the SingleFileUploader.upload call (SpecSingle)
    naming,       \* the type resolution of an uploader (SpecNaming)
    calls,        \* concurrent calls on one client (SpecConcurrent)
    loops         \* the loops of the multipart uploader (SpecLoops)

pollVars == <<config, onProgress, entry, pc, now, startTime, sessionID,
              service, reads, submitFetch, lastFetch, lastLatency, issuedAt,
              nonTerminal,
              progressLog, outcome>>
vars == <<config, onProgress, entry, pc, now, startTime, sessionID,
          service, reads, submitFetch, lastFetch, lastLatency, issuedAt,
              nonTerminal,
          progressLog, outcome, upload, multipart, single,
                   naming, calls, loops>>

\* ------------------------------------------------------------- constructor
\* OomolFusionSDK.constructor: pollingInterval and timeout with || defaults.
NewSDK(options) ==
    [pollingInterval |-> NumOrElse(options.pollingInterval, DEFAULT_POLLING_INTERVAL),
     timeout |-> NumOrElse(options.timeout, DEFAULT_TIMEOUT)]

\* ------------------------------------------------------------------ results
NoOutcome ==
    [kind |-> "none", data |-> Undefined, sessionID |-> Undefined,
     service |-> Undefined, state |-> Undefined, message |-> Undefined,
     timeout |-> -1, statusCode |-> -1]

\* finalResult of waitForResult
TaskResult(data, sid, svc) ==
    [NoOutcome EXCEPT !.kind = "TaskResult", !.data = data,
                      !.sessionID = sid, !.service = svc]

TaskTimeoutError(sid, svc, timeout) ==
    [NoOutcome EXCEPT !.kind = "TaskTimeoutError", !.sessionID = sid,
                      !.service = svc, !.timeout = timeout]

TaskFailedError(message, sid, svc, state) ==
    [NoOutcome EXCEPT !.kind = "TaskFailedError", !.message = message,
                      !.sessionID = sid, !.service = svc, !.state = state]

NetworkError(message) ==
    [NoOutcome EXCEPT !.kind = "NetworkError", !.message = message]

TaskSubmitError(message, statusCode) ==
    [NoOutcome EXCEPT !.kind = "TaskSubmitError", !.message = message,
                      !.statusCode = statusCode]

\* `Task failed: ${result.state}`
TaskFailedMessage(state) == "Task failed: " \o state

\* ----------------------------------------------------------- poll: helpers
\* variant: the timeout is never reached
TimedOutNever(t, start, timeout) == FALSE

\* variant: the test made with >= instead of >
TimedOutAtLimit(t, start, timeout) == t - start >= timeout

\* Date.now() - startTime > this.timeout
TimedOut(t, start, timeout) == t - start > timeout

\* variant: poll() called again at once
RepollDelayNone(cfg) == 0

\* variant: the timer armed with twice the polling interval
RepollDelayDoubled(cfg) == 2 * cfg.pollingInterval

\* the delay handed to setTimeout(poll, ...)
RepollDelay(cfg) == cfg.pollingInterval

\* variant: the progress tested for truthiness, which drops a progress of 0
EmitProgressTruthy(log, cb, progress) ==
    IF cb /\ progress # None /\ progress # Some(0)
    THEN Append(log, [site |-> "status", value |-> progress[1]])
    ELSE log

\* if (onProgress && result.progress !== undefined) onProgress(result.progress)
EmitProgress(log, cb, progress) ==
    IF cb /\ progress # None
    THEN Append(log, [site |-> "status", value |-> progress[1]])
    ELSE log

\* variant: no forced final call
EmitFinalSkipped(log, cb) == log

\* if (onProgress) onProgress(100)
EmitFinal(log, cb) ==
    IF cb THEN Append(log, [site |-> "final", value |-> 100]) ELSE log

\* ------------------------------------------------------ requests in flight
\* What a fetch of the status or submit endpoint can come back with:
\* "throw" - fetch rejects; "badjson" - a success status whose body does not
\* parse; "http" - a status and (for a success status) a parsed body.
StatusFetchResults ==
    [kind : {"throw"}, status : {0}, body : {NoResponse}]
    \cup [kind : {"badjson"}, status : OkStatuses, body : {NoResponse}]
    \cup [kind : {"http"}, status : HttpStatuses \ OkStatuses, body : {NoResponse}]
    \cup [kind : {"http"}, status : OkStatuses, body : TaskResultResponses]

NoStatusFetch == [kind |-> "none", status |-> 0, body |-> NoResponse]

SubmitResponses == [success : BOOLEAN, sessionID : SessionIDs]
NoSubmitResponse == [success |-> FALSE, sessionID |-> Undefined]

SubmitFetchResults ==
    [kind : {"throw"}, status : {0}, body : {NoSubmitResponse}]
    \cup [kind : {"badjson"}, status : OkStatuses, body : {NoSubmitResponse}]
    \cup [kind : {"http"}, status : HttpStatuses \ OkStatuses, body : {NoSubmitResponse}]
    \cup [kind : {"http"}, status : OkStatuses, body : SubmitResponses]

NoSubmitFetch == [kind |-> "none", status |-> 0, body |-> NoSubmitResponse]

\* variant: a non-success status is read as a task that is still pending
CheckTaskStatusLenient(fr) ==
    IF fr.kind = "throw" \/ fr.kind = "badjson"
    THEN [ok |-> FALSE, result |-> NoResponse,
          error |-> NetworkError("Network request failed")]
    ELSE IF ~ResponseOk(fr.status)
    THEN [ok |-> TRUE,
          result |-> [NoResponse EXCEPT !.state = "pending"],
          error |-> NoOutcome]
    ELSE [ok |-> TRUE, result |-> fr.body, error |-> NoOutcome]

\* checkTaskStatus: the body of a success response, a NetworkError otherwise.
CheckTaskStatus(fr) ==
    IF fr.kind = "throw"
    THEN [ok |-> FALSE, result |-> NoResponse,
          error |-> NetworkError("Network request failed")]
    ELSE IF ~ResponseOk(fr.status)
    THEN [ok |-> FALSE, result |-> NoResponse,
          error |-> NetworkError("Failed to get task status")]
    ELSE IF fr.kind = "badjson"
    THEN [ok |-> FALSE, result |-> NoResponse,
          error |-> NetworkError("Network request failed")]
    ELSE [ok |-> TRUE, result |-> fr.body, error |-> NoOutcome]

\* submitTask: the body of a success response, a TaskSubmitError for a
\* non-success status, a NetworkError when the request or the parse fails.
SubmitTask(fr) ==
    IF fr.kind = "throw"
    THEN [ok |-> FALSE, response |-> NoSubmitResponse,
          error |-> NetworkError("Network request failed")]
    ELSE IF ~ResponseOk(fr.status)
    THEN [ok |-> FALSE, response |-> NoSubmitResponse,
          error |-> TaskSubmitError("Task submission failed: <errorText>", fr.status)]
    ELSE IF fr.kind = "badjson"
    THEN [ok |-> FALSE, response |-> NoSubmitResponse,
          error |-> NetworkError("Network request failed")]
    ELSE [ok |-> TRUE, response |-> fr.body, error |-> NoOutcome]

\* variant: the success flag of the submit response is not looked at
SubmitAcceptedAlways(response) == TRUE

\* if (!submitResponse.success) throw new TaskSubmitError(...)
SubmitAccepted(response) == response.success

\* variant: 'completed' resolves whether or not data came with it
OnCompletedUnchecked(result, cb, sid, svc, forwarded) ==
    [next |-> "resolve", log |-> EmitFinal(forwarded, cb),
     outcome |-> TaskResult(result.data, sid, svc)]

\* variant: the timeout is tested again when the read has returned
OnCompletedDeadlineChecked(result, cb, sid, svc, forwarded) ==
    IF TimedOut(now', startTime, config.timeout)
    THEN [next |-> "reject", log |-> forwarded,
          outcome |-> TaskTimeoutError(sid, svc, config.timeout)]
    ELSE IF ~Truthy(result.data)
    THEN [next |-> "reject", log |-> forwarded,
          outcome |-> TaskFailedError("Task completed but no data returned",
                                      sid, svc, result.state)]
    ELSE [next |-> "resolve", log |-> EmitFinal(forwarded, cb),
          outcome |-> TaskResult(result.data, sid, svc)]

\* poll(), branch result.state === 'completed'
OnCompleted(result, cb, sid, svc, forwarded) ==
    IF ~Truthy(result.data)
    THEN [next |-> "reject", log |-> forwarded,
          outcome |-> TaskFailedError("Task completed but no data returned",
                                      sid, svc, result.state)]
    ELSE [next |-> "resolve", log |-> EmitFinal(forwarded, cb),
          outcome |-> TaskResult(result.data, sid, svc)]

\* variant: the error message of the response is not used
OnFailedGenericMessage(result, sid, svc, forwarded) ==
    [next |-> "reject", log |-> forwarded,
     outcome |-> TaskFailedError(TaskFailedMessage(result.state),
                                 sid, svc, result.state)]

\* poll(), branch result.state === 'failed' || result.state === 'error'
OnFailed(result, sid, svc, forwarded) ==
    [next |-> "reject", log |-> forwarded,
     outcome |-> TaskFailedError(OrElse(result.error, TaskFailedMessage(result.state)),
                                 sid, svc, result.state)]

\* variant: only 'pending' and 'processing' arm the timer, any other state
\* that is not 'completed' is handled as a failure
OnStatusKnownStatesOnly(result, cb, sid, svc, log) ==
    LET forwarded == EmitProgress(log, cb, result.progress) IN
    IF result.state = "completed"
    THEN OnCompleted(result, cb, sid, svc, forwarded)
    ELSE IF result.state = "pending" \/ result.state = "processing"
    THEN [next |-> "repoll", log |-> forwarded, outcome |-> NoOutcome]
    ELSE OnFailed(result, sid, svc, forwarded)

\* The part of poll() after the status read returned: forward the progress,
\* then resolve, reject or arm the re-poll timer.
OnStatus(result, cb, sid, svc, log) ==
    LET forwarded == EmitProgress(log, cb, result.progress) IN
    IF result.state = "completed"
    THEN OnCompleted(result, cb, sid, svc, forwarded)
    ELSE IF result.state = "failed" \/ result.state = "error"
    THEN OnFailed(result, sid, svc, forwarded)
    ELSE [next |-> "repoll", log |-> forwarded, outcome |-> NoOutcome]

\* ----------------------------------------------------------------- upload
\* Sizes within SizeSpread bytes of every boundary the code compares with.
SizeSpread == 2
ThresholdOptions == {0, -1, 1, 1024, DEFAULT_MULTIPART_THRESHOLD,
                     2 * DEFAULT_MULTIPART_THRESHOLD, 2 * MAX_FILE_SIZE}
SizeBoundaries == {0, 1, 1024, DEFAULT_MULTIPART_THRESHOLD,
                   2 * DEFAULT_MULTIPART_THRESHOLD, MAX_FILE_SIZE}
FileSizes == {b + d : b \in SizeBoundaries, d \in (0 - SizeSpread)..SizeSpread} \cap Nat

\* uploadOptions?.multipartThreshold || 5 * 1024 * 1024
EffectiveThreshold(option) == NumOrElse(option, 5 * 1024 * 1024)

\* variant: a file of exactly the threshold goes to the multipart uploader
shouldUseMultipartUploadInclusive(fileSize, threshold) == fileSize >= threshold

\* shouldUseMultipartUpload(fileSize, threshold)
shouldUseMultipartUpload(fileSize, threshold) == fileSize > threshold

\* variant: a file of exactly the maximum size is rejected too
FileTooLargeInclusive(fileSize) == fileSize >= MAX_FILE_SIZE

\* The size check of both uploader constructors.
FileTooLarge(fileSize) == fileSize > MAX_FILE_SIZE

\* The branch of uploadFile: which uploaders are constructed.
SelectUploaders(fileSize, threshold) ==
    IF shouldUseMultipartUpload(fileSize, threshold)
    THEN {"multipart"}
    ELSE {"single"}

\* Errors of the uploaders.  statusCode is -1 and response "undefined" when
\* the constructor was called without them.
NoUploadError ==
    [kind |-> "none", message |-> Undefined, statusCode |-> -1,
     response |-> Undefined, fileSize |-> -1, maxSize |-> -1]

FileUploadError(message, statusCode, response) ==
    [NoUploadError EXCEPT !.kind = "FileUploadError", !.message = message,
                          !.statusCode = statusCode, !.response = response]

\* FileTooLargeError extends FileUploadError
FileTooLargeError(fileSize, maxSize) ==
    [NoUploadError EXCEPT !.kind = "FileTooLargeError",
                          !.message = "File size exceeds limit",
                          !.fileSize = fileSize, !.maxSize = maxSize]

\* The first request upload() of the constructed uploader sends.
FirstRequest(uploader) ==
    IF uploader = "multipart" THEN "create-multipart-upload"
    ELSE "generate-presigned-url"

UploadIdle ==
    [pc |-> "idle", fileSize |-> 0, thresholdOption |-> 0, threshold |-> 0,
     selected |-> {}, started |-> {}, requests |-> {}, error |-> NoUploadError]

\* ------------------------------------------------------ MultipartUploader
\* Payloads of a few bytes, cut into parts of a few bytes.
MaxPayload == 5
MaxPartSize == 3
MaxRetries == 2
MaxNameLen == 3
DEFAULT_MAX_CONCURRENT_UPLOADS == 3

PayloadSizes == 0..MaxPayload
PartSizes == 1..MaxPartSize
ConcurrencyOptions == {0, 1, 2}
UploadIDs == {"upload-1"}
Keys == {"key-1"}
DownloadURLs == {"https://download/1"}

Min(a, b) == IF a < b THEN a ELSE b

\* variant: the end of a chunk is not clamped to the size of the file
ChunkEndUnclamped(i, chunkSize, totalSize) == i + chunkSize

\* const end = Math.min(i + chunkSize, totalSize)
ChunkEnd(i, chunkSize, totalSize) == Min(i + chunkSize, totalSize)

\* The loop of sliceFile from offset i on; chunks are those pushed so far.
RECURSIVE SliceLoop(_, _, _, _)
SliceLoop(i, totalSize, chunkSize, chunks) ==
    IF i < totalSize
    THEN LET start == i
             end == ChunkEnd(i, chunkSize, totalSize)
         IN SliceLoop(i + chunkSize, totalSize, chunkSize,
                      Append(chunks, [index |-> (i \div chunkSize) + 1,
                                      start |-> start,
                                      end |-> end,
                                      size |-> end - start]))
    ELSE chunks

\* variant: the loop body runs once before the test (an empty payload gives
\* one empty chunk)
sliceFileAtLeastOnce(totalSize, chunkSize) ==
    IF totalSize = 0
    THEN <<[index |-> 1, start |-> 0, end |-> 0, size |-> 0]>>
    ELSE SliceLoop(0, totalSize, chunkSize, <<>>)

\* MultipartUploader.sliceFile(chunkSize) on a file of totalSize bytes
sliceFile(totalSize, chunkSize) == SliceLoop(0, totalSize, chunkSize, <<>>)

\* variant: the positions of the chunks, counted from 0
PartNumbersZeroBased(chunks) == [k \in 1..Len(chunks) |-> k - 1]

\* chunks.map((chunk) => chunk.index)
PartNumbersOf(chunks) == [k \in 1..Len(chunks) |-> chunks[k].index]

\* A signed URL is written as the part number it was signed for.
PresignedUrl(partNumber) == [partNumber |-> partNumber, uploadURL |-> partNumber]

\* What the authorize response can list for the requested part numbers: one
\* URL per part in order or reversed, one part left out, or one URL too many.
UrlLists(partNumbers) ==
    LET n == Len(partNumbers)
        inOrder == [k \in 1..n |-> PresignedUrl(partNumbers[k])]
        without(j) == [k \in 1..(n - 1) |->
                          PresignedUrl(partNumbers[IF k < j THEN k ELSE k + 1])]
    IN {inOrder,
        [k \in 1..n |-> PresignedUrl(partNumbers[n + 1 - k])],
        Append(inOrder, PresignedUrl(n + 1))}
       \cup {without(j) : j \in 1..n}

\* variant: the URLs are used in the order of the response
SortUrlsAsReturned(urls) == urls

\* presignedUrls.sort((a, b) => a.partNumber - b.partNumber)
RECURSIVE SortUrls(_)
SortUrls(urls) ==
    IF urls = <<>> THEN <<>>
    ELSE LET last == urls[Len(urls)]
             sorted == SortUrls(SubSeq(urls, 1, Len(urls) - 1))
             k == Cardinality({j \in 1..Len(sorted) :
                                   sorted[j].partNumber <= last.partNumber})
         IN SubSeq(sorted, 1, k) \o <<last>> \o SubSeq(sorted, k + 1, Len(sorted))

\* An ETag response header: absent, or a tag with or without double quotes.
\* The tag of a part stored through a signed URL is that URL's part number.
NoEtagHeader == [present |-> FALSE, quoted |-> FALSE, tag |-> 0]
EtagHeaders(url) == {NoEtagHeader} \cup
                    [present : {TRUE}, quoted : BOOLEAN, tag : {url}]

\* etag.replace(/"/g, '')
StripQuotes(header) == [quoted |-> FALSE, tag |-> header.tag]

\* What a PUT to a signed URL can come back with.
PutResults(url) ==
    [kind : {"throw"}, status : {0}, etag : {NoEtagHeader}]
    \cup [kind : {"http"}, status : HttpStatuses \ OkStatuses, etag : {NoEtagHeader}]
    \cup [kind : {"http"}, status : OkStatuses, etag : EtagHeaders(url)]

NoPart == [partNumber |-> 0, etag |-> [quoted |-> FALSE, tag |-> 0]]

\* variant: a response without an ETag header is accepted
uploadChunkNoEtagCheck(chunk, fr) ==
    IF fr.kind = "throw" \/ ~ResponseOk(fr.status)
    THEN [ok |-> FALSE, part |-> NoPart,
          error |-> FileUploadError("Chunk upload failed", -1, Undefined)]
    ELSE [ok |-> TRUE,
          part |-> [partNumber |-> chunk.index, etag |-> StripQuotes(fr.etag)],
          error |-> NoUploadError]

\* MultipartUploader.uploadChunk after its PUT settled: the part and its
\* etag, or a FileUploadError (the catch rewraps every error, the one that
\* carried the status included, into one without a status).
uploadChunk(chunk, fr) ==
    IF fr.kind = "throw" \/ ~ResponseOk(fr.status) \/ ~fr.etag.present
    THEN [ok |-> FALSE, part |-> NoPart,
          error |-> FileUploadError("Chunk upload failed", -1, Undefined)]
    ELSE [ok |-> TRUE,
          part |-> [partNumber |-> chunk.index, etag |-> StripQuotes(fr.etag)],
          error |-> NoUploadError]

\* variant: one chunk more than the limit in a batch
BatchOfOneMore(seq, i, limit) == SubSeq(seq, i + 1, Min(i + limit + 1, Len(seq)))

\* seq.slice(i, i + limit)
BatchOf(seq, i, limit) == SubSeq(seq, i + 1, Min(i + limit, Len(seq)))

\* variant: the loop stops one batch early
MoreBatchesStopsEarly(i, limit, n) == i + limit < n

\* the loop test i < chunks.length
MoreBatches(i, limit, n) == i < n

\* variant: the next batch starts on the last chunk of this one
NextBatchIndexOverlapping(i, limit) == IF limit > 1 THEN i + limit - 1 ELSE i + 1

\* i += this.maxConcurrentUploads
NextBatchIndex(i, limit) == i + limit

\* variant: the results of a batch in the order the uploads completed
GatherBatchAsCompleted(batch, settled) == settled

\* await Promise.all(uploadPromises): the results in the order of the batch,
\* whatever the order the uploads settled in.
GatherBatch(batch, settled) ==
    [k \in 1..Len(batch) |->
        LET j == CHOOSE j \in 1..Len(settled) :
                     settled[j].partNumber = batch[k].index
        IN settled[j]]

\* batch.reduce((sum, chunk) => sum + chunk.size, 0)
RECURSIVE BatchBytes(_)
BatchBytes(batch) ==
    IF batch = <<>> THEN 0
    ELSE BatchBytes(SubSeq(batch, 1, Len(batch) - 1)) + batch[Len(batch)].size

\* variant: the percentage rounded down
PercentageTruncated(uploadedBytes, totalBytes) ==
    (100 * uploadedBytes) \div totalBytes

\* Math.round((uploadedBytes / totalBytes) * 100)
Percentage(uploadedBytes, totalBytes) ==
    (200 * uploadedBytes + totalBytes) \div (2 * totalBytes)

UploadProgress(uploadedBytes, totalBytes, uploadedChunks, totalChunks) ==
    [uploadedBytes |-> uploadedBytes, totalBytes |-> totalBytes,
     percentage |-> Percentage(uploadedBytes, totalBytes),
     uploadedChunks |-> uploadedChunks, totalChunks |-> totalChunks]

\* batch.map((chunk, index) => this.uploadChunk(chunk, urlBatch[index].uploadURL))
\* The PUTs are issued in batch order; reading uploadURL of a missing
\* urlBatch[index] throws a TypeError, which ends the map with the earlier
\* PUTs already sent.
StartUploads(batch, urlBatch) ==
    LET sent == Min(Len(batch), Len(urlBatch))
    IN [puts |-> [k \in 1..sent |->
                     [part |-> batch[k].index, url |-> urlBatch[k].uploadURL]],
        threw |-> Len(urlBatch) < Len(batch)]

\* Requests the uploader sends, in the order it sends them.
NoRequest ==
    [name |-> "none", fileSize |-> -1, uploadID |-> Undefined, key |-> Undefined,
     partNumbers |-> <<>>, part |-> 0, url |-> 0, parts |-> <<>>]

CreateRequest(fileSize) ==
    [NoRequest EXCEPT !.name = "create-multipart-upload", !.fileSize = fileSize]

UrlsRequest(uploadID, key, partNumbers) ==
    [NoRequest EXCEPT !.name = "generate-presigned-urls", !.uploadID = uploadID,
                      !.key = key, !.partNumbers = partNumbers]

PutRequest(put) ==
    [NoRequest EXCEPT !.name = "PUT", !.part = put.part, !.url = put.url]

CompleteRequest(uploadID, key, parts) ==
    [NoRequest EXCEPT !.name = "complete-multipart-upload", !.uploadID = uploadID,
                      !.key = key, !.parts = parts]

NoCreated == [uploadID |-> Undefined, key |-> Undefined, partSize |-> 0]

\* What the three JSON requests of the uploader can come back with: "throw"
\* - fetch rejects; "badjson" - a success status whose body does not parse;
\* "http" - a status with, for a success status, the parsed data and, for
\* any other status, the error body (which may itself not parse).
ErrorBodies == {"unparsable", "error-json"}

CreateFetchResults ==
    [kind : {"throw"}, status : {0}, data : {NoCreated}, errorBody : {Undefined}]
    \cup [kind : {"badjson"}, status : OkStatuses, data : {NoCreated},
          errorBody : {Undefined}]
    \cup [kind : {"http"}, status : HttpStatuses \ OkStatuses, data : {NoCreated},
          errorBody : ErrorBodies]
    \cup [kind : {"http"}, status : OkStatuses,
          data : [uploadID : UploadIDs, key : Keys, partSize : PartSizes],
          errorBody : {Undefined}]

UrlsFetchResults(partNumbers) ==
    [kind : {"throw"}, status : {0}, data : {<<>>}, errorBody : {Undefined}]
    \cup [kind : {"badjson"}, status : OkStatuses, data : {<<>>},
          errorBody : {Undefined}]
    \cup [kind : {"http"}, status : HttpStatuses \ OkStatuses, data : {<<>>},
          errorBody : ErrorBodies]
    \cup [kind : {"http"}, status : OkStatuses, data : UrlLists(partNumbers),
          errorBody : {Undefined}]

CompleteFetchResults ==
    [kind : {"throw"}, status : {0}, data : {Undefined}, errorBody : {Undefined}]
    \cup [kind : {"badjson"}, status : OkStatuses, data : {Undefined},
          errorBody : {Undefined}]
    \cup [kind : {"http"}, status : HttpStatuses \ OkStatuses, data : {Undefined},
          errorBody : ErrorBodies]
    \cup [kind : {"http"}, status : OkStatuses, data : DownloadURLs,
          errorBody : {Undefined}]

NoFetch == [kind |-> "none", status |-> 0, errorBody |-> Undefined]

\* What is kept of a settled request: how it ended, and the error body.
Settled(fr) == [kind |-> fr.kind, status |-> fr.status, errorBody |-> fr.errorBody]

\* What is kept of a settled PUT of a part.
SettledPut(put, fr) ==
    [part |-> put.part, url |-> put.url, kind |-> fr.kind, status |-> fr.status,
     etagPresent |-> fr.etag.present]

\* await response.json().catch(() => ({}))
ErrorData(fr) == IF fr.errorBody = "unparsable" THEN "{}" ELSE fr.errorBody

\* The catch of upload(): an error that is not a FileUploadError is wrapped.
WrappedError == FileUploadError("Multipart upload failed", -1, Undefined)

\* upload() after the create request settled: a non-success status throws
\* a FileUploadError with the status and the error body, a failed fetch or
\* parse ends in the wrapping catch.
OnCreateResponse(fr) ==
    IF fr.kind = "throw"
    THEN [ok |-> FALSE, error |-> WrappedError]
    ELSE IF ~ResponseOk(fr.status)
    THEN [ok |-> FALSE,
          error |-> FileUploadError("Failed to create multipart upload",
                                    fr.status, ErrorData(fr))]
    ELSE IF fr.kind = "badjson"
    THEN [ok |-> FALSE, error |-> WrappedError]
    ELSE [ok |-> TRUE, error |-> NoUploadError]

\* variant: the status of the presigned-urls response is not looked at
OnUrlsResponseAnyStatus(fr) ==
    IF fr.kind = "throw" \/ fr.kind = "badjson"
    THEN [ok |-> FALSE, error |-> WrappedError]
    ELSE [ok |-> TRUE, error |-> NoUploadError]

\* upload() after the presigned-urls request settled, in the same way.
OnUrlsResponse(fr) ==
    IF fr.kind = "throw"
    THEN [ok |-> FALSE, error |-> WrappedError]
    ELSE IF ~ResponseOk(fr.status)
    THEN [ok |-> FALSE,
          error |-> FileUploadError("Failed to generate presigned URLs",
                                    fr.status, ErrorData(fr))]
    ELSE IF fr.kind = "badjson"
    THEN [ok |-> FALSE, error |-> WrappedError]
    ELSE [ok |-> TRUE, error |-> NoUploadError]

\* upload() after the complete request settled: the error for a non-success
\* status carries the status only.
OnCompleteResponse(fr) ==
    IF fr.kind = "throw"
    THEN [ok |-> FALSE, error |-> WrappedError]
    ELSE IF ~ResponseOk(fr.status)
    THEN [ok |-> FALSE,
          error |-> FileUploadError("Failed to complete upload", fr.status, Undefined)]
    ELSE IF fr.kind = "badjson"
    THEN [ok |-> FALSE, error |-> WrappedError]
    ELSE [ok |-> TRUE, error |-> NoUploadError]

MultipartIdle ==
    [pc |-> "idle", fileSize |-> 0, onProgress |-> FALSE,
     maxConcurrentUploads |-> 0, created |-> NoCreated, chunks |-> <<>>,
     sortedUrls |-> <<>>, i |-> 0, inflight |-> {}, settled |-> <<>>,
     results |-> <<>>, uploadedBytes |-> 0, progress |-> <<>>,
     requests |-> <<>>, batches |-> 0, putLog |-> {},
     createFetch |-> NoFetch, urlsFetch |-> NoFetch, urlsReturned |-> <<>>,
     downloadURL |-> Undefined, error |-> NoUploadError]

\* MultipartUploader.constructor
NewMultipartUploader(fileSize, options) ==
    [MultipartIdle EXCEPT
        !.fileSize = fileSize,
        !.onProgress = options.onProgress,
        !.maxConcurrentUploads =
            NumOrElse(options.maxConcurrentUploads, DEFAULT_MAX_CONCURRENT_UPLOADS)]

\* The loop of uploadChunksConcurrently at its test, for the uploader state
\* m: start the PUTs of the next batch, or return the results to upload(),
\* which sends the complete request.
ContinueUpload(m) ==
    IF MoreBatches(m.i, m.maxConcurrentUploads, Len(m.chunks))
    THEN LET batch == BatchOf(m.chunks, m.i, m.maxConcurrentUploads)
             urlBatch == BatchOf(m.sortedUrls, m.i, m.maxConcurrentUploads)
             started == StartUploads(batch, urlBatch)
         IN [m EXCEPT
               !.requests = @ \o [k \in 1..Len(started.puts) |->
                                     PutRequest(started.puts[k])],
               !.inflight = @ \cup {started.puts[k] : k \in 1..Len(started.puts)},
               !.settled = <<>>,
               !.batches = @ + 1,
               !.pc = IF started.threw THEN "rejected" ELSE "uploading",
               !.error = IF started.threw THEN WrappedError ELSE @]
    ELSE [m EXCEPT
            !.pc = "finalizing",
            !.requests = Append(@, CompleteRequest(m.created.uploadID,
                                                   m.created.key, m.results))]

\* The chunk with the given index.
ChunkOf(chunks, index) ==
    chunks[CHOOSE k \in 1..Len(chunks) : chunks[k].index = index]

\* ------------------------------------------- the loops of the uploader
\* The two loops of MultipartUploader, sliceFile and
\* uploadChunksConcurrently, for every part size a create response can
\* carry and every maxConcurrentUploads option, with every request
\* returning success.  Only what the loop tests read is kept: the loop
\* variable and the lengths of the lists.  A count that has reached
\* MaxIterations stands for "MaxIterations or more", a loop variable that
\* has reached -MaxIterations for "-MaxIterations or less"; both are
\* beyond every payload and every chunk list drawn, so the loop tests are
\* exact.
MaxIterations == MaxPayload + 2

LoopsIdle ==
    [pc |-> "idle", totalSize |-> 0, maxConcurrentUploads |-> 0,
     chunkSize |-> 0, i |-> 0, chunks |-> 0, batch |-> 0, puts |-> 0,
     batches |-> 0, results |-> 0, notifications |-> 0]

\* The length of array.slice(start, end) on an array of n elements: a
\* negative index counts from the end of the array.
SliceLength(n, start, end) ==
    LET relative(k) == IF k < 0 THEN (IF n + k > 0 THEN n + k ELSE 0)
                       ELSE Min(k, n)
    IN IF relative(end) > relative(start)
       THEN relative(end) - relative(start) ELSE 0

\* ----------------------------------------------------- SingleFileUploader
DEFAULT_RETRIES == 3

\* The retries option: 0 when omitted (or 0), a negative number, or a
\* positive count.
RetriesOptions == {-1, 0} \cup (1..MaxRetries)

\* The progress callback of the caller: absent, one that returns, one that
\* throws every time it is called, or one that throws the first time it is
\* called and returns afterwards.
CallbackOptions == {"none", "returns", "throws", "throws once"}

SingleOptions == [retries : RetriesOptions, onProgress : CallbackOptions]

\* The data of the generate-presigned-url response; a property may be
\* missing.
NoInitData == [uploadURL |-> Undefined, downloadURL |-> Undefined, fields |-> Undefined]
InitDatas ==
    [uploadURL : {Undefined, "https://storage/1"},
     downloadURL : {Undefined, "https://download/1"},
     fields : {Undefined, "fields-1"}]

\* What the generate-presigned-url request can come back with: "throw" -
\* fetch rejects; "badjson" - a success status whose body does not parse;
\* "http" - a status with, for a success status, the parsed data.
InitFetchResults ==
    [kind : {"throw"}, status : {0}, data : {NoInitData}]
    \cup [kind : {"badjson"}, status : OkStatuses, data : {NoInitData}]
    \cup [kind : {"http"}, status : HttpStatuses \ OkStatuses, data : {NoInitData}]
    \cup [kind : {"http"}, status : OkStatuses, data : InitDatas]

NoInitFetch == [kind |-> "none", status |-> 0, data |-> NoInitData]

\* What a POST to the storage URL can come back with.
PostResults ==
    [kind : {"throw"}, status : {0}]
    \cup [kind : {"http"}, status : HttpStatuses]

\* The catch of SingleFileUploader.upload(): an error that is not a
\* FileUploadError is wrapped.
WrappedSingleError == FileUploadError("File upload failed", -1, Undefined)

\* upload() after the generate-presigned-url request settled.
OnInitResponse(fr) ==
    IF fr.kind = "throw"
    THEN [ok |-> FALSE, error |-> WrappedSingleError]
    ELSE IF ~ResponseOk(fr.status)
    THEN [ok |-> FALSE,
          error |-> FileUploadError("Failed to initialize upload", fr.status, Undefined)]
    ELSE IF fr.kind = "badjson"
    THEN [ok |-> FALSE, error |-> WrappedSingleError]
    ELSE IF ~Truthy(fr.data.uploadURL) \/ ~Truthy(fr.data.downloadURL)
            \/ ~Truthy(fr.data.fields)
    THEN [ok |-> FALSE,
          error |-> FileUploadError("Invalid API response", -1, Undefined)]
    ELSE [ok |-> TRUE, error |-> NoUploadError]

SingleIdle ==
    [pc |-> "idle", retriesOption |-> 0, retries |-> 0, onProgress |-> "none",
     initFetch |-> NoInitFetch, initRequests |-> 0, attempt |-> 0,
     posts |-> 0, postLog |-> <<>>, waits |-> <<>>, progress |-> <<>>,
     downloadURL |-> Undefined, error |-> NoUploadError]

\* SingleFileUploader.constructor
NewSingleFileUploader(options) ==
    [SingleIdle EXCEPT
        !.retriesOption = options.retries,
        !.retries = NumOrElse(options.retries, DEFAULT_RETRIES),
        !.onProgress = options.onProgress]

\* the loop test attempt <= this.retries
MoreAttempts(attempt, retries) == attempt <= retries

\* variant: the last attempt is taken for one attempt too early
LastAttemptEarly(attempt, retries) == attempt + 1 >= retries

\* attempt === this.retries
LastAttempt(attempt, retries) == attempt = retries

\* variant: the same delay before every retry
RetryDelayConstant(attempt) == 1000

\* setTimeout(resolve, 1000 * attempt)
RetryDelay(attempt) == 1000 * attempt

\* The loop of uploadToCloud at its test, for the uploader state s: the POST
\* of the next attempt is sent, or the loop is left, uploadToCloud returns
\* and upload() returns the download URL.
ContinueAttempts(s) ==
    IF MoreAttempts(s.attempt, s.retries)
    THEN [s EXCEPT !.pc = "posting", !.posts = @ + 1]
    ELSE [s EXCEPT !.pc = "resolved", !.downloadURL = s.initFetch.data.downloadURL]

\* The catch of the loop body, for the uploader state s: after the last
\* attempt a FileUploadError is thrown, otherwise the backoff timer is set.
OnAttemptError(s) ==
    IF LastAttempt(s.attempt, s.retries)
    THEN [s EXCEPT !.pc = "rejected",
                   !.error = FileUploadError("File upload failed after retries",
                                             -1, Undefined)]
    ELSE [s EXCEPT !.pc = "waiting", !.waits = Append(@, RetryDelay(s.attempt))]

\* The loop body after a success response, for the uploader state s: the
\* callback, if any, is called with 100; an exception it throws is caught
\* by the catch of the loop body like a failed POST.
OnPostOk(s) ==
    IF s.onProgress = "none"
    THEN [s EXCEPT !.pc = "resolved", !.downloadURL = s.initFetch.data.downloadURL]
    ELSE IF s.onProgress = "returns"
            \/ (s.onProgress = "throws once" /\ s.progress # <<>>)
    THEN [s EXCEPT !.pc = "resolved", !.progress = Append(@, 100),
                   !.downloadURL = s.initFetch.data.downloadURL]
    ELSE OnAttemptError([s EXCEPT !.progress = Append(@, 100)])

\* ------------------------------------------------------- type resolution
\* A file name is a sequence of tokens: "." or a piece of text without a
\* dot.  Two pieces in a row make a longer text, which is none of the
\* supported types.
NameTokens == {".", "png", "PNG", "Zip", "xyz", "file"}
FileNames == UNION {[1..n -> NameTokens] : n \in 0..MaxNameLen}

\* const supportedTypes = [...]
supportedTypes ==
    {"png", "jpg", "jpeg", "gif", "webp", "mp3", "mp4", "txt", "epub", "pdf",
     "md", "docx", "xlsx", "pptx", "csv", "json", "zip"}

\* String.prototype.toLowerCase on a text made of pieces
ToLowerCase(text) ==
    [k \in 1..Len(text) |->
        CASE text[k] = "PNG" -> "png"
          [] text[k] = "Zip" -> "zip"
          [] OTHER -> text[k]]

\* fileName.split('.'): the texts between the dots, in order
RECURSIVE SplitName(_)
SplitName(name) ==
    IF \A k \in 1..Len(name) : name[k] # "."
    THEN <<name>>
    ELSE LET d == CHOOSE k \in 1..Len(name) :
                      name[k] = "." /\ \A j \in (k + 1)..Len(name) : name[j] # "."
         IN Append(SplitName(SubSeq(name, 1, d - 1)),
                   SubSeq(name, d + 1, Len(name)))

\* variant: the suffix compared as written, without toLowerCase
getFileSuffixCaseSensitive(fileName) ==
    LET parts == SplitName(fileName)
        suffix == IF Len(parts) > 1 THEN parts[Len(parts)] ELSE <<>>
    IN IF Len(suffix) = 1 /\ suffix[1] \in supportedTypes THEN suffix[1] ELSE "txt"

\* getFileSuffix of both uploaders
getFileSuffix(fileName) ==
    LET parts == SplitName(fileName)
        suffix == IF Len(parts) > 1 THEN ToLowerCase(parts[Len(parts)]) ELSE <<>>
    IN IF Len(suffix) = 1 /\ suffix[1] \in supportedTypes THEN suffix[1] ELSE "txt"

\* SingleFileUploader.getContentType
getContentType(suffix) ==
    CASE suffix = "png" -> "image/png"
      [] suffix = "jpg" -> "image/jpeg"
      [] suffix = "jpeg" -> "image/jpeg"
      [] suffix = "gif" -> "image/gif"
      [] suffix = "webp" -> "image/webp"
      [] suffix = "mp3" -> "audio/mpeg"
      [] suffix = "mp4" -> "video/mp4"
      [] suffix = "txt" -> "text/plain"
      [] suffix = "md" -> "text/markdown"
      [] suffix = "pdf" -> "application/pdf"
      [] suffix = "epub" -> "application/epub+zip"
      [] suffix = "docx" ->
            "application/vnd.openxmlformats-officedocument.wordprocessingml.document"
      [] suffix = "xlsx" ->
            "application/vnd.openxmlformats-officedocument.spreadsheetml.sheet"
      [] suffix = "pptx" ->
            "application/vnd.openxmlformats-officedocument.presentationml.presentation"
      [] suffix = "csv" -> "text/csv"
      [] suffix = "json" -> "application/json"
      [] suffix = "zip" -> "application/zip"
      [] OTHER -> "application/octet-stream"

\* The uploader constructed for a file name: the fileSuffix field, sent in
\* the create-multipart-upload or generate-presigned-url request, and for
\* the single-shot uploader the type of the Blob that is POSTed.
NamingIdle ==
    [pc |-> "idle", fileName |-> <<>>, uploader |-> "none",
     fileSuffix |-> Undefined, sentSuffix |-> Undefined, contentType |-> Undefined]

NoCalls == <<>>

\* ------------------------------------------------------------ poller: Init
Init ==
    /\ config \in {NewSDK([pollingInterval |-> i, timeout |-> t]) :
                       i \in IntervalOptions, t \in TimeoutOptions}
    /\ onProgress \in BOOLEAN
    /\ entry \in {"run", "waitFor"}
    /\ pc = "idle"
    /\ now = 0
    /\ startTime = 0
    /\ sessionID = Undefined
    /\ service = Undefined
    /\ reads = 0
    /\ submitFetch = NoSubmitFetch
    /\ lastFetch = NoStatusFetch
    /\ lastLatency = 0
    /\ issuedAt = 0
    /\ nonTerminal = 0
    /\ progressLog = <<>>
    /\ outcome = NoOutcome
    /\ upload = UploadIdle
    /\ multipart = MultipartIdle
    /\ single = SingleIdle
    /\ naming = NamingIdle
    /\ calls = NoCalls
    /\ loops = LoopsIdle

\* --------------------------------------------------------- poller: actions
\* The synchronous head of poll() at time t of a wait that started at start:
\* reject on timeout, else issue the status read.
PollHead(t, start, sid, svc) ==
    IF TimedOut(t, start, config.timeout)
    THEN /\ pc' = "rejected"
         /\ outcome' = TaskTimeoutError(sid, svc, config.timeout)
         /\ UNCHANGED <<reads, issuedAt>>
    ELSE /\ reads < MaxReads
         /\ pc' = "reading"
         /\ reads' = reads + 1
         /\ issuedAt' = t - start
         /\ UNCHANGED outcome

\* waitFor(service, sessionID, options): waitForResult starts the clock and
\* runs the first poll() synchronously.
WaitFor ==
    /\ pc = "idle" /\ entry = "waitFor"
    /\ \E sid \in SessionIDs, svc \in Services :
          /\ sessionID' = sid
          /\ service' = svc
          /\ startTime' = now
          /\ PollHead(now, now, sid, svc)
    /\ UNCHANGED <<config, onProgress, entry, now, submitFetch, lastFetch,
                   lastLatency, nonTerminal, progressLog, upload, multipart, single,
                   naming, calls, loops>>

\* run(request, options) up to its first await: the submit request is sent.
Run ==
    /\ pc = "idle" /\ entry = "run"
    /\ \E svc \in Services : service' = svc
    /\ pc' = "submitting"
    /\ UNCHANGED <<config, onProgress, entry, now, startTime, sessionID, reads,
                   submitFetch, lastFetch, lastLatency, issuedAt, nonTerminal,
                   progressLog, outcome, upload, multipart, single,
                   naming, calls, loops>>

\* run() after the submit request settled.
SubmitSettled ==
    /\ pc = "submitting"
    /\ \E fr \in SubmitFetchResults, lat \in Latencies :
          LET submitted == SubmitTask(fr) IN
          /\ now' = now + lat
          /\ submitFetch' = fr
          /\ IF ~submitted.ok
             THEN /\ pc' = "rejected"
                  /\ outcome' = submitted.error
                  /\ UNCHANGED <<startTime, sessionID, reads, issuedAt>>
             ELSE IF ~SubmitAccepted(submitted.response)
             THEN /\ pc' = "rejected"
                  /\ outcome' = TaskSubmitError("Task submission failed", -1)
                  /\ UNCHANGED <<startTime, sessionID, reads, issuedAt>>
             ELSE /\ sessionID' = submitted.response.sessionID
                  /\ startTime' = now'
                  /\ PollHead(now', now', submitted.response.sessionID, service)
    /\ UNCHANGED <<config, onProgress, entry, service, lastFetch, lastLatency,
                   nonTerminal, progressLog, upload, multipart, single,
                   naming, calls, loops>>

\* poll() after the status request settled.
StatusSettled ==
    /\ pc = "reading"
    /\ \E fr \in StatusFetchResults, lat \in Latencies :
          LET checked == CheckTaskStatus(fr)
              step == OnStatus(checked.result, onProgress, sessionID, service,
                               progressLog)
          IN
          /\ now' = now + lat
          /\ lastLatency' = lat
          /\ lastFetch' = fr
          /\ IF ~checked.ok
             THEN /\ pc' = "rejected"
                  /\ outcome' = checked.error
                  /\ UNCHANGED <<nonTerminal, progressLog>>
             ELSE /\ nonTerminal' = IF step.next = "repoll"
                                    THEN nonTerminal + 1 ELSE nonTerminal
                  /\ progressLog' = step.log
                  /\ outcome' = step.outcome
                  /\ pc' = CASE step.next = "resolve" -> "resolved"
                             [] step.next = "reject" -> "rejected"
                             [] OTHER -> "sleeping"
    /\ UNCHANGED <<config, onProgress, entry, startTime, sessionID, service,
                   reads, submitFetch, issuedAt, upload, multipart, single,
                   naming, calls, loops>>

\* The re-poll timer fires and runs poll().
TimerFired ==
    /\ pc = "sleeping"
    /\ now' = now + RepollDelay(config)
    /\ PollHead(now', startTime, sessionID, service)
    /\ UNCHANGED <<config, onProgress, entry, startTime, sessionID, service,
                   submitFetch, lastFetch, lastLatency, nonTerminal,
                   progressLog, upload, multipart, single,
                   naming, calls, loops>>

Next == WaitFor \/ Run \/ SubmitSettled \/ StatusSettled \/ TimerFired

Spec == Init /\ [][Next]_vars

\* The poller with its scheduling: a request that was sent returns, an
\* armed timer fires, a call that was made runs.  The clients are those
\* whose wait times out within MaxReads status reads.
InitLive ==
    /\ Init
    /\ config.pollingInterval >= 1
    /\ (config.timeout \div config.pollingInterval) + 1 <= MaxReads

SpecLive == InitLive /\ [][Next]_vars /\ WF_vars(Next)

\* ------------------------------------------------------------ uploadFile
InitUpload ==
    /\ config = NewSDK([pollingInterval |-> 0, timeout |-> 0])
    /\ onProgress = FALSE
    /\ entry = "uploadFile"
    /\ pc = "idle"
    /\ now = 0
    /\ startTime = 0
    /\ sessionID = Undefined
    /\ service = Undefined
    /\ reads = 0
    /\ submitFetch = NoSubmitFetch
    /\ lastFetch = NoStatusFetch
    /\ lastLatency = 0
    /\ issuedAt = 0
    /\ nonTerminal = 0
    /\ progressLog = <<>>
    /\ outcome = NoOutcome
    /\ \E size \in FileSizes, option \in ThresholdOptions :
          upload = [UploadIdle EXCEPT !.fileSize = size,
                                      !.thresholdOption = option]
    /\ multipart = MultipartIdle
    /\ single = SingleIdle
    /\ naming = NamingIdle
    /\ calls = NoCalls
    /\ loops = LoopsIdle

\* uploadFile(file, options) up to its first await: the threshold is
\* resolved, the strategy selected, the uploader constructed (which checks
\* the size) and its upload() called.
UploadFile ==
    /\ upload.pc = "idle"
    /\ LET threshold == EffectiveThreshold(upload.thresholdOption)
           selected == SelectUploaders(upload.fileSize, threshold)
       IN upload' = IF FileTooLarge(upload.fileSize)
                    THEN [upload EXCEPT !.pc = "rejected",
                                        !.threshold = threshold,
                                        !.selected = selected,
                                        !.error = FileTooLargeError(upload.fileSize,
                                                                    MAX_FILE_SIZE)]
                    ELSE [upload EXCEPT !.pc = "uploading",
                                        !.threshold = threshold,
                                        !.selected = selected,
                                        !.started = selected,
                                        !.requests = {FirstRequest(u) : u \in selected}]
    /\ UNCHANGED pollVars
    /\ UNCHANGED <<multipart, single,
                   naming, calls, loops>>

NextUpload == UploadFile

SpecUpload == InitUpload /\ [][NextUpload]_vars

\* ------------------------------------------- MultipartUploader.upload
MultipartOptions == [onProgress : BOOLEAN, maxConcurrentUploads : ConcurrencyOptions]

PollerIdle ==
    /\ config = NewSDK([pollingInterval |-> 0, timeout |-> 0])
    /\ onProgress = FALSE
    /\ pc = "idle"
    /\ now = 0
    /\ startTime = 0
    /\ sessionID = Undefined
    /\ service = Undefined
    /\ reads = 0
    /\ submitFetch = NoSubmitFetch
    /\ lastFetch = NoStatusFetch
    /\ lastLatency = 0
    /\ issuedAt = 0
    /\ nonTerminal = 0
    /\ progressLog = <<>>
    /\ outcome = NoOutcome

InitMultipart ==
    /\ PollerIdle
    /\ entry = "MultipartUploader.upload"
    /\ upload = UploadIdle
    /\ single = SingleIdle
    /\ naming = NamingIdle
    /\ calls = NoCalls
    /\ loops = LoopsIdle
    /\ \E size \in PayloadSizes, options \in MultipartOptions :
          multipart = NewMultipartUploader(size, options)

\* upload() up to its first await: the create request is sent.
MultipartUpload ==
    /\ multipart.pc = "idle"
    /\ multipart' = [multipart EXCEPT
                        !.pc = "negotiating",
                        !.requests = <<CreateRequest(multipart.fileSize)>>]
    /\ UNCHANGED pollVars
    /\ UNCHANGED <<upload, single, naming, calls, loops>>

\* upload() after the create request settled: the file is sliced with the
\* part size of the response and the presigned-urls request is sent.
CreateSettled ==
    /\ multipart.pc = "negotiating"
    /\ \E fr \in CreateFetchResults :
          LET handled == OnCreateResponse(fr)
              chunks == sliceFile(multipart.fileSize, fr.data.partSize)
          IN multipart' =
               IF ~handled.ok
               THEN [multipart EXCEPT
                       !.pc = "rejected",
                       !.createFetch = Settled(fr),
                       !.error = handled.error]
               ELSE [multipart EXCEPT
                       !.pc = "authorizing",
                       !.createFetch = Settled(fr),
                       !.created = fr.data,
                       !.chunks = chunks,
                       !.requests = Append(@, UrlsRequest(fr.data.uploadID,
                                                          fr.data.key,
                                                          PartNumbersOf(chunks)))]
    /\ UNCHANGED pollVars
    /\ UNCHANGED <<upload, single, naming, calls, loops>>

\* upload() after the presigned-urls request settled:
\* uploadChunksConcurrently sorts the URLs and enters its loop.
UrlsSettled ==
    /\ multipart.pc = "authorizing"
    /\ \E fr \in UrlsFetchResults(PartNumbersOf(multipart.chunks)) :
          LET handled == OnUrlsResponse(fr)
          IN multipart' =
               IF ~handled.ok
               THEN [multipart EXCEPT
                       !.pc = "rejected",
                       !.urlsFetch = Settled(fr),
                       !.error = handled.error]
               ELSE ContinueUpload(
                      [multipart EXCEPT
                         !.urlsFetch = Settled(fr),
                         !.urlsReturned = fr.data,
                         !.sortedUrls = SortUrls(fr.data),
                         !.i = 0])
    /\ UNCHANGED pollVars
    /\ UNCHANGED <<upload, single, naming, calls, loops>>

\* A PUT of the running batch settled.  A failure rejects Promise.all and
\* with it the call at once; the last success of the batch pushes the
\* results, reports the progress and goes on with the loop.
PartSettled ==
    /\ multipart.pc = "uploading"
    /\ \E put \in multipart.inflight : \E fr \in PutResults(put.url) :
          LET uploaded == uploadChunk(ChunkOf(multipart.chunks, put.part), fr)
              limit == multipart.maxConcurrentUploads
              batch == BatchOf(multipart.chunks, multipart.i, limit)
              settled == Append(multipart.settled, uploaded.part)
              results == multipart.results \o GatherBatch(batch, settled)
              uploadedBytes == multipart.uploadedBytes + BatchBytes(batch)
          IN multipart' =
               IF ~uploaded.ok
               THEN [multipart EXCEPT
                       !.pc = "rejected",
                       !.inflight = @ \ {put},
                       !.putLog = @ \cup {SettledPut(put, fr)},
                       !.error = FileUploadError("Batch upload failed", -1, Undefined)]
               ELSE IF Len(settled) < Len(batch)
               THEN [multipart EXCEPT !.inflight = @ \ {put},
                                      !.putLog = @ \cup {SettledPut(put, fr)},
                                      !.settled = settled]
               ELSE ContinueUpload(
                      [multipart EXCEPT
                         !.inflight = @ \ {put},
                         !.putLog = @ \cup {SettledPut(put, fr)},
                         !.settled = settled,
                         !.results = results,
                         !.uploadedBytes = uploadedBytes,
                         !.progress =
                            IF multipart.onProgress
                            THEN Append(@, UploadProgress(uploadedBytes,
                                                          multipart.fileSize,
                                                          Len(results),
                                                          Len(multipart.chunks)))
                            ELSE @,
                         !.i = NextBatchIndex(multipart.i, limit)])
    /\ UNCHANGED pollVars
    /\ UNCHANGED <<upload, single, naming, calls, loops>>

\* A PUT settles after the call was rejected: nobody awaits it any more.
LatePartSettled ==
    /\ multipart.pc = "rejected"
    /\ \E put \in multipart.inflight : \E fr \in PutResults(put.url) :
          multipart' = [multipart EXCEPT
                          !.inflight = @ \ {put},
                          !.putLog = @ \cup {SettledPut(put, fr)}]
    /\ UNCHANGED pollVars
    /\ UNCHANGED <<upload, single, naming, calls, loops>>

\* upload() after the complete request settled.
CompleteSettled ==
    /\ multipart.pc = "finalizing"
    /\ \E fr \in CompleteFetchResults :
          LET handled == OnCompleteResponse(fr)
          IN multipart' =
               IF ~handled.ok
               THEN [multipart EXCEPT !.pc = "rejected", !.error = handled.error]
               ELSE [multipart EXCEPT !.pc = "resolved", !.downloadURL = fr.data]
    /\ UNCHANGED pollVars
    /\ UNCHANGED <<upload, single, naming, calls, loops>>

NextMultipart ==
    \/ MultipartUpload \/ CreateSettled \/ UrlsSettled
    \/ PartSettled \/ LatePartSettled \/ CompleteSettled

SpecMultipart == InitMultipart /\ [][NextMultipart]_vars

\* ------------------------------------------------ SingleFileUploader.upload
InitSingle ==
    /\ PollerIdle
    /\ entry = "SingleFileUploader.upload"
    /\ upload = UploadIdle
    /\ multipart = MultipartIdle
    /\ naming = NamingIdle
    /\ calls = NoCalls
    /\ loops = LoopsIdle
    /\ \E options \in SingleOptions : single = NewSingleFileUploader(options)

\* upload() up to its first await: the generate-presigned-url request is
\* sent.
SingleUpload ==
    /\ single.pc = "idle"
    /\ single' = [single EXCEPT !.pc = "initializing", !.initRequests = @ + 1]
    /\ UNCHANGED pollVars
    /\ UNCHANGED <<upload, multipart, naming, calls, loops>>

\* upload() after the generate-presigned-url request settled: uploadToCloud
\* enters its loop with attempt 1.
InitSettled ==
    /\ single.pc = "initializing"
    /\ \E fr \in InitFetchResults :
          LET handled == OnInitResponse(fr)
          IN single' =
               IF ~handled.ok
               THEN [single EXCEPT !.pc = "rejected", !.initFetch = fr,
                                   !.error = handled.error]
               ELSE ContinueAttempts([single EXCEPT !.initFetch = fr,
                                                    !.attempt = 1])
    /\ UNCHANGED pollVars
    /\ UNCHANGED <<upload, multipart, naming, calls, loops>>

\* The POST of the running attempt settled.
PostSettled ==
    /\ single.pc = "posting"
    /\ \E fr \in PostResults :
          LET logged == [single EXCEPT !.postLog = Append(@, fr)]
          IN single' =
               IF fr.kind = "http" /\ ResponseOk(fr.status)
               THEN OnPostOk(logged)
               ELSE OnAttemptError(logged)
    /\ UNCHANGED pollVars
    /\ UNCHANGED <<upload, multipart, naming, calls, loops>>

\* The backoff timer fired: attempt++ and the loop test.
BackoffFired ==
    /\ single.pc = "waiting"
    /\ single' = ContinueAttempts([single EXCEPT !.attempt = @ + 1])
    /\ UNCHANGED pollVars
    /\ UNCHANGED <<upload, multipart, naming, calls, loops>>

NextSingle == SingleUpload \/ InitSettled \/ PostSettled \/ BackoffFired

SpecSingle == InitSingle /\ [][NextSingle]_vars

\* -------------------------------------------------- uploader type resolution
InitNaming ==
    /\ PollerIdle
    /\ entry = "new uploader"
    /\ upload = UploadIdle
    /\ multipart = MultipartIdle
    /\ single = SingleIdle
    /\ calls = NoCalls
    /\ loops = LoopsIdle
    /\ \E name \in FileNames, uploader \in {"multipart", "single"} :
          naming = [NamingIdle EXCEPT !.fileName = name, !.uploader = uploader]

\* The constructor of the uploader resolves the suffix of the file name.
Construct ==
    /\ naming.pc = "idle"
    /\ naming' = [naming EXCEPT !.pc = "constructed",
                                !.fileSuffix = getFileSuffix(naming.fileName)]
    /\ UNCHANGED pollVars
    /\ UNCHANGED <<upload, multipart, single, calls, loops>>

\* upload() sends its first request with the resolved suffix; the
\* single-shot uploader later builds the Blob it POSTs with the content
\* type of that suffix.
SendSuffix ==
    /\ naming.pc = "constructed"
    /\ naming' = [naming EXCEPT
                    !.pc = "sent",
                    !.sentSuffix = naming.fileSuffix,
                    !.contentType = IF naming.uploader = "single"
                                    THEN getContentType(naming.fileSuffix)
                                    ELSE Undefined]
    /\ UNCHANGED pollVars
    /\ UNCHANGED <<upload, multipart, single, calls, loops>>

NextNaming == Construct \/ SendSuffix

SpecNaming == InitNaming /\ [][NextNaming]_vars

\* ------------------------------------------- MultipartUploader, its loops
InitLoops ==
    /\ PollerIdle
    /\ entry = "MultipartUploader.upload"
    /\ upload = UploadIdle
    /\ multipart = MultipartIdle
    /\ single = SingleIdle
    /\ naming = NamingIdle
    /\ calls = NoCalls
    /\ \E size \in PayloadSizes, limit \in {-2, -1} \cup ConcurrencyOptions :
          loops = [LoopsIdle EXCEPT
                      !.totalSize = size,
                      !.maxConcurrentUploads =
                          NumOrElse(limit, DEFAULT_MAX_CONCURRENT_UPLOADS)]

\* upload() after the create request returned success: sliceFile is called
\* with the part size of the response, whatever it is.
CreateReturned ==
    /\ loops.pc = "idle"
    /\ \E partSize \in {-1, 0} \cup PartSizes :
          loops' = [loops EXCEPT !.pc = "slicing", !.chunkSize = partSize,
                                 !.i = 0]
    /\ UNCHANGED pollVars
    /\ UNCHANGED <<upload, multipart, single, naming, calls>>

\* The test of the loop of sliceFile: if it holds the bytes of the next
\* chunk are read (await blob.arrayBuffer()); if not, sliceFile returns and
\* upload() sends the presigned-urls request.
SliceTest ==
    /\ loops.pc = "slicing"
    /\ loops' = [loops EXCEPT
                    !.pc = IF loops.i < loops.totalSize
                           THEN "reading" ELSE "authorizing"]
    /\ UNCHANGED pollVars
    /\ UNCHANGED <<upload, multipart, single, naming, calls>>

\* The bytes of the chunk were read: the chunk is pushed, i += chunkSize,
\* and the loop is at its test again.
ChunkRead ==
    /\ loops.pc = "reading"
    /\ loops' = [loops EXCEPT
                    !.pc = "slicing",
                    !.chunks = Min(@ + 1, MaxIterations),
                    !.i = IF @ + loops.chunkSize < -MaxIterations
                          THEN -MaxIterations ELSE @ + loops.chunkSize]
    /\ UNCHANGED pollVars
    /\ UNCHANGED <<upload, multipart, single, naming, calls>>

\* The test of the loop of uploadChunksConcurrently, on entry (the
\* presigned-urls request returned one URL per part; i = 0) and after each
\* batch: if it holds the next batch is sliced and its PUTs are started;
\* if not, the results are returned and upload() sends the complete
\* request.
BatchTest ==
    /\ loops.pc \in {"authorizing", "scheduling"}
    /\ LET limit == loops.maxConcurrentUploads
           at == IF loops.pc = "authorizing" THEN 0 ELSE loops.i
           size == SliceLength(loops.chunks, at, at + limit)
       IN loops' = IF MoreBatches(at, limit, loops.chunks)
                   THEN [loops EXCEPT !.pc = "uploading",
                                      !.i = at,
                                      !.batch = size,
                                      !.puts = @ + size,
                                      !.batches = Min(@ + 1, MaxIterations)]
                   ELSE [loops EXCEPT !.pc = "finalizing", !.i = at,
                                      !.batch = 0]
    /\ UNCHANGED pollVars
    /\ UNCHANGED <<upload, multipart, single, naming, calls>>

\* The Promise.all of the batch resolved, every PUT of the batch having
\* returned success: the results are pushed, the progress is notified,
\* i += maxConcurrentUploads, and the loop is at its test again.
BatchSettled ==
    /\ loops.pc = "uploading"
    /\ LET limit == loops.maxConcurrentUploads
       IN loops' = [loops EXCEPT
                       !.pc = "scheduling",
                       !.results = @ + loops.batch,
                       !.notifications = Min(@ + 1, MaxIterations),
                       !.i = IF NextBatchIndex(@, limit) < -MaxIterations
                             THEN -MaxIterations
                             ELSE NextBatchIndex(@, limit)]
    /\ UNCHANGED pollVars
    /\ UNCHANGED <<upload, multipart, single, naming, calls>>

NextLoops ==
    CreateReturned \/ SliceTest \/ ChunkRead \/ BatchTest \/ BatchSettled

\* Every step of the loops is a continuation the event loop runs once the
\* awaited request has returned.
SpecLoops == InitLoops /\ [][NextLoops]_vars /\ WF_vars(NextLoops)

\* ------------------------------------------- concurrent calls on one client
\* Several calls of waitFor, run and uploadFile are in progress on one
\* client.  The client's fields are in config; everything else a call
\* keeps is in local variables of waitForResult (startTime, the poll
\* closure and its promise) or in the uploader object that uploadFile
\* constructs for the call, and is written here as the record of the call:
\* the poller's variables, the uploader (its single-shot form), and the
\* events the call has seen.  now is what Date.now() last returned to the
\* call.
CallIDs == {1, 2}

NewCall(kind) ==
    [kind |-> kind, pc |-> "idle", now |-> 0, startTime |-> 0,
     sessionID |-> Undefined, reads |-> 0, progressLog |-> <<>>,
     outcome |-> NoOutcome, single |-> SingleIdle, events |-> <<>>]

\* The events that can come next for a call: the call itself, or the
\* settling of the request it awaits (with what the request comes back
\* with and the time it took), or the firing of the timer it armed.
CallEvents(cfg, c) ==
    LET bodies == {b \in TaskResultResponses :
                      \/ b.state = "pending" /\ b.progress = Some(0)
                      \/ b.state = "completed" /\ b.data = "payload" /\ b.progress = None
                      \/ b.state = "failed" /\ b.error = "boom" /\ b.progress = None}
        statusResults == {fr \in StatusFetchResults :
                             fr.kind = "throw" \/ fr.body \in bodies}
        submitResults == {fr \in SubmitFetchResults :
                             fr.kind = "throw" \/ (fr.kind = "http" /\ fr.status # 404)}
        initResults == {fr \in InitFetchResults :
                            \/ fr.kind = "throw"
                            \/ fr.kind = "http" /\ fr.status = 500
                            \/ fr.kind = "http" /\ fr.data.uploadURL # Undefined
                                 /\ fr.data.downloadURL # Undefined
                                 /\ fr.data.fields # Undefined}
        event(type, results, lats) == [type : {type}, fr : results, lat : lats]
    IN CASE c.pc = "idle" -> event("call", {Undefined}, {0})
         [] c.pc = "submitting" -> event("submit", submitResults, {0, MaxLatency})
         [] c.pc = "reading" -> event("status", statusResults, {0, MaxLatency})
         [] c.pc = "sleeping" ->
               IF TimedOut(c.now + RepollDelay(cfg), c.startTime, cfg.timeout)
                  \/ c.reads < MaxReads
               THEN event("timer", {Undefined}, {0}) ELSE {}
         [] c.pc = "uploading" /\ c.single.pc = "initializing" ->
               event("init", initResults, {0})
         [] c.pc = "uploading" /\ c.single.pc = "posting" ->
               event("post", PostResults, {0})
         [] c.pc = "uploading" /\ c.single.pc = "waiting" ->
               event("backoff", {Undefined}, {0})
         [] OTHER -> {}

\* What one event does to the call it belongs to, on a client with the
\* fields cfg: the code of run, waitFor / waitForResult.poll and of
\* SingleFileUploader.upload, on the variables of that call.
CallStep(cfg, c, ev) ==
    LET pollHead(p, t) ==
            IF TimedOut(t, p.startTime, cfg.timeout)
            THEN [p EXCEPT !.pc = "rejected", !.now = t,
                           !.outcome = TaskTimeoutError(p.sessionID, "svc",
                                                        cfg.timeout)]
            ELSE [p EXCEPT !.pc = "reading", !.now = t, !.reads = @ + 1]
        uploader(u) ==
            [c EXCEPT !.single = u,
                      !.pc = IF u.pc \in {"resolved", "rejected"}
                             THEN u.pc ELSE "uploading"]
        seen == [c EXCEPT !.events = Append(@, ev)]
        next ==
          CASE ev.type = "call" /\ c.kind = "waitFor" ->
                 pollHead([seen EXCEPT !.sessionID = "sess-1",
                                       !.startTime = c.now], c.now)
            [] ev.type = "call" /\ c.kind = "run" ->
                 [seen EXCEPT !.pc = "submitting"]
            [] ev.type = "call" /\ c.kind = "uploadFile" ->
                 [seen EXCEPT
                    !.pc = "uploading",
                    !.single = [NewSingleFileUploader([retries |-> MaxRetries,
                                                       onProgress |-> "returns"])
                                  EXCEPT !.pc = "initializing",
                                         !.initRequests = 1]]
            [] ev.type = "submit" ->
                 LET submitted == SubmitTask(ev.fr)
                     t == c.now + ev.lat
                 IN IF ~submitted.ok
                    THEN [seen EXCEPT !.pc = "rejected", !.now = t,
                                      !.outcome = submitted.error]
                    ELSE IF ~SubmitAccepted(submitted.response)
                    THEN [seen EXCEPT !.pc = "rejected", !.now = t,
                                      !.outcome = TaskSubmitError(
                                                      "Task submission failed", -1)]
                    ELSE pollHead([seen EXCEPT
                                     !.sessionID = submitted.response.sessionID,
                                     !.startTime = t], t)
            [] ev.type = "status" ->
                 LET checked == CheckTaskStatus(ev.fr)
                     step == OnStatus(checked.result, TRUE, c.sessionID, "svc",
                                      c.progressLog)
                     t == c.now + ev.lat
                 IN IF ~checked.ok
                    THEN [seen EXCEPT !.pc = "rejected", !.now = t,
                                      !.outcome = checked.error]
                    ELSE [seen EXCEPT
                            !.now = t,
                            !.progressLog = step.log,
                            !.outcome = step.outcome,
                            !.pc = CASE step.next = "resolve" -> "resolved"
                                     [] step.next = "reject" -> "rejected"
                                     [] OTHER -> "sleeping"]
            [] ev.type = "timer" ->
                 pollHead(seen, c.now + RepollDelay(cfg))
            [] ev.type = "init" ->
                 LET handled == OnInitResponse(ev.fr)
                 IN IF ~handled.ok
                    THEN [uploader([c.single EXCEPT !.pc = "rejected",
                                                    !.initFetch = ev.fr,
                                                    !.error = handled.error])
                            EXCEPT !.events = seen.events]
                    ELSE [uploader(ContinueAttempts(
                                      [c.single EXCEPT !.initFetch = ev.fr,
                                                       !.attempt = 1]))
                            EXCEPT !.events = seen.events]
            [] ev.type = "post" ->
                 LET logged == [c.single EXCEPT !.postLog = Append(@, ev.fr)]
                 IN [uploader(IF ev.fr.kind = "http" /\ ResponseOk(ev.fr.status)
                              THEN OnPostOk(logged)
                              ELSE OnAttemptError(logged))
                       EXCEPT !.events = seen.events]
            [] ev.type = "backoff" ->
                 [uploader(ContinueAttempts([c.single EXCEPT !.attempt = @ + 1]))
                    EXCEPT !.events = seen.events]
    IN next

\* variant: the start time and the progress log are kept in fields of the
\* client, which every call writes and reads
StoreCallInClient(cs, id, c) ==
    [k \in DOMAIN cs |->
        IF k = id THEN c
        ELSE [cs[k] EXCEPT !.startTime = c.startTime,
                           !.progressLog = c.progressLog]]

\* A call writes the variables of its own invocation only.
StoreCall(cs, id, c) == [cs EXCEPT ![id] = c]

InitConcurrent ==
    /\ \E interval \in {1, 2} :
          config = NewSDK([pollingInterval |-> interval, timeout |-> 2])
    /\ onProgress = TRUE
    /\ pc = "idle"
    /\ now = 0
    /\ startTime = 0
    /\ sessionID = Undefined
    /\ service = Undefined
    /\ reads = 0
    /\ submitFetch = NoSubmitFetch
    /\ lastFetch = NoStatusFetch
    /\ lastLatency = 0
    /\ issuedAt = 0
    /\ nonTerminal = 0
    /\ progressLog = <<>>
    /\ outcome = NoOutcome
    /\ entry = "concurrent calls"
    /\ upload = UploadIdle
    /\ multipart = MultipartIdle
    /\ single = SingleIdle
    /\ naming = NamingIdle
    /\ loops = LoopsIdle
    /\ calls \in [CallIDs -> {NewCall(kind) : kind \in {"waitFor", "run", "uploadFile"}}]

\* One step of one of the calls; the steps of different calls interleave
\* in any order.  No step assigns a field of the client.
CallAdvance ==
    /\ \E id \in CallIDs : \E ev \in CallEvents(config, calls[id]) :
          calls' = StoreCall(calls, id, CallStep(config, calls[id], ev))
    /\ UNCHANGED pollVars
    /\ UNCHANGED <<upload, multipart, single, naming, loops>>

SpecConcurrent == InitConcurrent /\ [][CallAdvance]_vars

\* ================================================================ claims
\* The body of the last status read, when that read returned a success
\* status with a parsed body.
ReadReturned == lastFetch.kind = "http" /\ lastFetch.status \in 200..299
LastBody == lastFetch.body
Elapsed == now - startTime
HasData(body) == body.data \notin {"undefined", "empty"}
LastValue(log) == log[Len(log)].value

\* C1: when n reads returned a non-terminal state and read n+1 returned
\* 'completed' with a data payload, the wait made exactly n+1 status reads,
\* resolved with {data of that read, sessionID, service}, and the last call
\* of the progress callback (if one was supplied) was with 100.
C1_PollSuccess ==
    (ReadReturned /\ LastBody.state = "completed" /\ HasData(LastBody)) =>
        /\ pc = "resolved"
        /\ reads = nonTerminal + 1
        /\ outcome.kind = "TaskResult"
        /\ outcome.data = LastBody.data
        /\ outcome.sessionID = sessionID /\ sessionID \in SessionIDs
        /\ outcome.service = service /\ service \in Services
        /\ onProgress => (progressLog # <<>> /\ LastValue(progressLog) = 100)

C1_Witness ==
    /\ pc = "resolved" /\ entry = "run" /\ onProgress
    /\ reads = 3 /\ nonTerminal = 2
    /\ LastBody.progress = <<0>>
    /\ LastValue(progressLog) = 100

\* C2: a read is issued only while elapsed <= timeout (the test is made in
\* the head of every poll iteration); a wait all of whose reads returned a
\* non-terminal state and that rejected, rejected with a TaskTimeoutError
\* carrying the configured timeout and the wait's sessionID and service,
\* at a moment when elapsed > timeout, with no read left in flight.
C2_PollTimeout ==
    /\ reads > 0 => issuedAt <= config.timeout
    /\ (pc = "rejected" /\ reads > 0 /\ nonTerminal = reads) =>
           outcome.kind = "TaskTimeoutError"
    /\ outcome.kind = "TaskTimeoutError" =>
           /\ pc = "rejected"
           /\ outcome.timeout = config.timeout
           /\ outcome.sessionID = sessionID /\ sessionID \in SessionIDs
           /\ outcome.service = service /\ service \in Services
           /\ Elapsed > config.timeout
           /\ nonTerminal = reads

C2_Witness ==
    /\ outcome.kind = "TaskTimeoutError" /\ reads = 2
    /\ issuedAt = config.timeout

\* C3 (as stated): the timeout rejection is delivered no later than
\* timeout + one polling interval after the wait started.
C3_Original ==
    outcome.kind = "TaskTimeoutError" =>
        Elapsed <= config.timeout + config.pollingInterval

\* C3 (amended): the timeout rejection is delivered no later than
\* timeout + one polling interval + the latency of the last status request
\* after the wait started.
C3_Overshoot ==
    outcome.kind = "TaskTimeoutError" =>
        Elapsed <= config.timeout + config.pollingInterval + lastLatency

C3_Witness ==
    /\ outcome.kind = "TaskTimeoutError"
    /\ lastLatency = MaxLatency
    /\ Elapsed = config.timeout + config.pollingInterval + lastLatency

\* C4: a read that returns 'completed' without a (truthy) data payload
\* rejects the wait with TaskFailedError('Task completed but no data
\* returned') carrying state 'completed'; the callback is not called with
\* the forced 100 and no further read is issued.
C4_CompletedNoData ==
    (ReadReturned /\ LastBody.state = "completed" /\ ~HasData(LastBody)) =>
        /\ pc = "rejected"
        /\ outcome.kind = "TaskFailedError"
        /\ outcome.message = "Task completed but no data returned"
        /\ outcome.state = "completed"
        /\ outcome.sessionID = sessionID /\ outcome.service = service
        /\ \A i \in 1..Len(progressLog) : progressLog[i].site # "final"
        /\ Len(progressLog) <= reads
        /\ reads = nonTerminal + 1

C4_Witness ==
    /\ pc = "rejected" /\ onProgress /\ reads = 2
    /\ ReadReturned /\ LastBody.state = "completed" /\ LastBody.data = "empty"
    /\ LastBody.progress = <<100>>

\* C5: a read that returns 'failed' or 'error' rejects the wait with a
\* TaskFailedError whose state is the state string of the response and whose
\* message is the error message of the response, or 'Task failed: <state>'
\* when the response has none; no further read is issued.
C5_FailedTerminal ==
    (ReadReturned /\ LastBody.state \in {"failed", "error"}) =>
        /\ pc = "rejected"
        /\ outcome.kind = "TaskFailedError"
        /\ outcome.state = LastBody.state
        /\ outcome.message =
               IF LastBody.error \notin {"undefined", "empty"}
               THEN LastBody.error
               ELSE IF LastBody.state = "failed" THEN "Task failed: failed"
                                                 ELSE "Task failed: error"
        /\ outcome.sessionID = sessionID /\ outcome.service = service
        /\ reads = nonTerminal + 1

C5_Witness ==
    /\ pc = "rejected" /\ reads = 2
    /\ ReadReturned /\ LastBody.state = "error" /\ LastBody.error = "undefined"
    /\ outcome.message = "Task failed: error"

\* C6: when a status request throws or returns a non-success HTTP status the
\* wait rejects at once with a NetworkError and issues no further read, also
\* when the timeout has not elapsed.
C6_TransportFailure ==
    (lastFetch.kind = "throw" \/
     (lastFetch.kind = "http" /\ lastFetch.status \notin 200..299)) =>
        /\ pc = "rejected"
        /\ outcome.kind = "NetworkError"
        /\ reads = nonTerminal + 1

C6_Witness ==
    /\ pc = "rejected" /\ outcome.kind = "NetworkError"
    /\ lastFetch.kind = "http" /\ lastFetch.status = 500
    /\ reads = 2 /\ Elapsed < config.timeout

\* C7: every status read that returns a body makes exactly the callback
\* calls: the progress value of the body if it carries one (unchanged, also
\* for failed / error / completed-without-data bodies), followed by 100 if
\* the body is 'completed' with data; without a callback nothing is called.
C7_ProgressForwarding ==
    [][(pc = "reading" /\ lastFetch'.kind = "http"
                       /\ lastFetch'.status \in 200..299) =>
         progressLog' =
            IF onProgress
            THEN progressLog
                   \o (IF lastFetch'.body.progress = <<>> THEN <<>>
                       ELSE <<[site |-> "status",
                               value |-> lastFetch'.body.progress[1]]>>)
                   \o (IF lastFetch'.body.state = "completed"
                          /\ HasData(lastFetch'.body)
                       THEN <<[site |-> "final", value |-> 100]>> ELSE <<>>)
            ELSE <<>>]_vars

C7_Witness ==
    /\ pc = "resolved"
    /\ Len(progressLog) = 3
    /\ progressLog[1].value = 0
    /\ progressLog[2] = [site |-> "status", value |-> 100]
    /\ progressLog[3] = [site |-> "final", value |-> 100]
    /\ reads = 3

\* C8: run() issues a status read only after the submit request returned a
\* success status with success = true in the body; a non-success status or
\* success = false rejects run() with a TaskSubmitError and zero reads.
C8_RunSubmitFirst ==
    entry = "run" =>
        /\ reads > 0 => /\ submitFetch.kind = "http"
                        /\ submitFetch.status \in 200..299
                        /\ submitFetch.body.success
        /\ (submitFetch.kind = "http" /\
            (submitFetch.status \notin 200..299 \/ ~submitFetch.body.success)) =>
               /\ pc = "rejected"
               /\ outcome.kind = "TaskSubmitError"
               /\ reads = 0

C8_Witness ==
    /\ entry = "run" /\ pc = "rejected" /\ reads = 0
    /\ submitFetch.kind = "http" /\ submitFetch.status = 200
    /\ ~submitFetch.body.success
    /\ outcome.kind = "TaskSubmitError"

C10_DefaultThreshold ==
    (upload.pc # "idle" /\ upload.thresholdOption = 0
        /\ upload.fileSize <= 500 * 1024 * 1024) =>
        /\ upload.fileSize < 5 * 1024 * 1024 => upload.started = {"single"}
        /\ upload.fileSize >= 5 * 1024 * 1024 => upload.started = {"multipart"}

\* C11: a payload larger than 500 MB is rejected with a FileTooLargeError
\* carrying fileSize and maxSize before any request is sent, whatever the
\* threshold option (so whichever uploader was selected); a payload of
\* exactly 500 MB is not rejected by the size check.
C11_SizeCeiling ==
    upload.pc # "idle" =>
        /\ upload.fileSize > 500 * 1024 * 1024 =>
              /\ upload.pc = "rejected"
              /\ upload.error.kind = "FileTooLargeError"
              /\ upload.error.fileSize = upload.fileSize
              /\ upload.error.maxSize = 500 * 1024 * 1024
              /\ upload.requests = {}
              /\ upload.started = {}
        /\ upload.fileSize = 500 * 1024 * 1024 =>
              /\ upload.pc = "uploading"
              /\ upload.error.kind = "none"
              /\ upload.requests # {}

C11_Witness ==
    /\ upload.pc = "rejected"
    /\ upload.fileSize = 500 * 1024 * 1024 + 1
    /\ upload.selected = {"single"}
    /\ upload.error.kind = "FileTooLargeError"

\* ------------------------------------------------ multipart upload claims
IsPut(k) == multipart.requests[k].name = "PUT"
IsComplete(k) == multipart.requests[k].name = "complete-multipart-upload"
RequestIndexes == 1..Len(multipart.requests)
CompleteSent == \E k \in RequestIndexes : IsComplete(k)
FetchOk(f) == f.kind = "http" /\ f.status \in 200..299
FetchNotOk(f) == f.kind = "http" /\ f.status \notin 200..299
CeilDiv(a, b) == (a + b - 1) \div b

\* A settled PUT that counts as a failed part: the request threw, the
\* status was not a success, or the success response had no ETag header.
PutFailed(e) == e.kind = "throw" \/ e.status \notin 200..299 \/ ~e.etagPresent

\* C12: slicing a payload of S bytes with part size P gives ceil(S/P)
\* chunks numbered 1, 2, ... in payload order, each starting where the
\* previous one ends, the first at 0 and the last ending at S, all of size
\* P except possibly a smaller last one, the sizes adding up to S.
C12_ChunkPartition ==
    multipart.created # NoCreated =>
        LET S == multipart.fileSize
            P == multipart.created.partSize
            chunks == multipart.chunks
            N == Len(chunks)
        IN /\ N = CeilDiv(S, P)
           /\ \A k \in 1..N :
                 /\ chunks[k].index = k
                 /\ chunks[k].start = (IF k = 1 THEN 0 ELSE chunks[k - 1].end)
                 /\ chunks[k].size = chunks[k].end - chunks[k].start
                 /\ chunks[k].size >= 1
                 /\ chunks[k].size <= P
                 /\ k < N => chunks[k].size = P
           /\ N > 0 => chunks[N].end = S
           /\ BatchBytes(chunks) = S

C12_Witness ==
    /\ multipart.pc = "authorizing"
    /\ multipart.fileSize = 5
    /\ multipart.created.partSize = 2
    /\ Len(multipart.chunks) = 3
    /\ multipart.chunks[3].size = 1

\* C13: the parts list of the complete request is in strictly ascending
\* part-number order, whatever the order the PUTs of a batch completed in.
C13_PartsAscending ==
    \A k \in RequestIndexes :
        IsComplete(k) =>
            LET parts == multipart.requests[k].parts
            IN \A a, b \in 1..Len(parts) :
                  a < b => parts[a].partNumber < parts[b].partNumber

C13_Witness ==
    /\ multipart.pc = "finalizing"
    /\ multipart.batches = 2
    /\ Len(multipart.settled) = 2
    /\ multipart.settled[1].partNumber > multipart.settled[2].partNumber

\* C14: with concurrency limit K there are never more than K PUTs in
\* flight; the PUTs are issued in ascending chunk order; a PUT in flight
\* belongs to the running batch and every part of the earlier batches has
\* its result by then; an upload that got to the complete request ran
\* exactly ceil(N/K) batches.
C14_BatchBarrier ==
    LET K == multipart.maxConcurrentUploads
        N == Len(multipart.chunks)
    IN /\ Cardinality(multipart.inflight) <= K
       /\ \A a, b \in RequestIndexes :
             (a < b /\ IsPut(a) /\ IsPut(b)) =>
                 multipart.requests[a].part < multipart.requests[b].part
       /\ \A put \in multipart.inflight :
             /\ put.part > multipart.i
             /\ put.part <= multipart.i + K
             /\ \A j \in 1..multipart.i :
                   \E k \in 1..Len(multipart.results) :
                       multipart.results[k].partNumber = j
       /\ \A k \in RequestIndexes :
             IsPut(k) => multipart.requests[k].part <= multipart.batches * K
       /\ multipart.pc \in {"finalizing", "resolved"} =>
             multipart.batches = CeilDiv(N, K)

C14_Witness ==
    /\ multipart.pc = "resolved"
    /\ multipart.maxConcurrentUploads = 2
    /\ Len(multipart.chunks) = 5
    /\ multipart.batches = 3

\* C15: the complete request is sent only when every part 1..N has been
\* PUT with a success response carrying an ETag, and its parts list has
\* exactly one entry for each part number 1..N, with that part's etag.
C15_FinalizeAfterAllParts ==
    \A k \in RequestIndexes :
        IsComplete(k) =>
            LET parts == multipart.requests[k].parts
                N == CeilDiv(multipart.fileSize, multipart.created.partSize)
            IN /\ Len(parts) = N
               /\ multipart.inflight = {}
               /\ \A j \in 1..N :
                     /\ Cardinality({a \in 1..Len(parts) :
                                         parts[a].partNumber = j}) = 1
                     /\ \E a \in 1..(k - 1) :
                           IsPut(a) /\ multipart.requests[a].part = j
                     /\ \E e \in multipart.putLog :
                           /\ e.part = j
                           /\ ~PutFailed(e)
                           /\ \E a \in 1..Len(parts) :
                                 /\ parts[a].partNumber = j
                                 /\ parts[a].etag.tag = e.url

C15_Witness ==
    /\ multipart.pc = "resolved"
    /\ Len(multipart.chunks) = 4
    /\ Len(multipart.results) = 4
    /\ multipart.batches = 2

\* C16: once a PUT of a part has failed (threw, non-success status, or a
\* success without ETag) the call is rejected with a FileUploadError, no
\* PUT of a later batch has been sent and no complete request is sent.
C16_PartFailureAborts ==
    (\E e \in multipart.putLog : PutFailed(e)) =>
        /\ multipart.pc = "rejected"
        /\ multipart.error.kind = "FileUploadError"
        /\ multipart.downloadURL = Undefined
        /\ ~CompleteSent
        /\ \A k \in RequestIndexes :
              IsPut(k) => multipart.requests[k].part
                              <= multipart.i + multipart.maxConcurrentUploads

C16_Witness ==
    /\ multipart.pc = "rejected"
    /\ \E e \in multipart.putLog :
          e.kind = "http" /\ e.status \in 200..299 /\ ~e.etagPresent
    /\ multipart.i > 0
    /\ Len(multipart.chunks) > multipart.i + multipart.maxConcurrentUploads

\* C17: no part number is the target of more than one PUT, a failed part
\* included.
C17_NoPartRetry ==
    \A a, b \in RequestIndexes :
        (a # b /\ IsPut(a) /\ IsPut(b)) =>
            multipart.requests[a].part # multipart.requests[b].part

C17_Witness ==
    /\ multipart.pc = "rejected"
    /\ multipart.inflight = {}
    /\ \E e \in multipart.putLog :
          /\ e.kind = "throw"
          /\ Cardinality({k \in RequestIndexes :
                              IsPut(k) /\ multipart.requests[k].part = e.part}) = 1

\* The order of the requests (create, presigned-urls, PUTs, complete), each
\* phase sent only after the previous one returned success, and nothing
\* sent after a non-success response to create or presigned-urls.
PhaseRank(name) ==
    CASE name = "create-multipart-upload" -> 1
      [] name = "generate-presigned-urls" -> 2
      [] name = "PUT" -> 3
      [] name = "complete-multipart-upload" -> 4

PhasesInOrder ==
    /\ \A a, b \in RequestIndexes :
          a < b =>
             LET ra == PhaseRank(multipart.requests[a].name)
                 rb == PhaseRank(multipart.requests[b].name)
             IN ra <= rb /\ (ra = rb => ra = 3)
    /\ \A k \in RequestIndexes :
          /\ PhaseRank(multipart.requests[k].name) >= 2 =>
                k > 1 /\ FetchOk(multipart.createFetch)
          /\ PhaseRank(multipart.requests[k].name) >= 3 =>
                k > 2 /\ FetchOk(multipart.urlsFetch)
          /\ IsComplete(k) =>
                /\ multipart.inflight = {}
                /\ \A e \in multipart.putLog : ~PutFailed(e)
    /\ FetchNotOk(multipart.createFetch) =>
          /\ multipart.pc = "rejected"
          /\ multipart.error.kind = "FileUploadError"
          /\ multipart.error.statusCode = multipart.createFetch.status
          /\ Len(multipart.requests) = 1
    /\ FetchNotOk(multipart.urlsFetch) =>
          /\ multipart.pc = "rejected"
          /\ multipart.error.kind = "FileUploadError"
          /\ multipart.error.statusCode = multipart.urlsFetch.status
          /\ Len(multipart.requests) = 2

C19_CountMismatch ==
    (FetchOk(multipart.urlsFetch)
        /\ Len(multipart.urlsReturned) # Len(multipart.chunks)) =>
        /\ ~CompleteSent
        /\ multipart.pc # "resolved"
        /\ multipart.pc = "rejected" => multipart.error.kind = "FileUploadError"

\* ---------------------------------------------- single-shot upload claims
PostOk(e) == e.kind = "http" /\ e.status \in 200..299

\* C20: with retries = N >= 1 and a progress callback that is absent or
\* returns normally, as long as fewer than N storage POSTs have been made and
\* all of them failed the uploader goes on to the next attempt; once POST
\* number k+1 <= N succeeds after k failures there have been exactly k+1
\* POSTs and one signed-target request, the call has resolved with the
\* download URL of the signed-target response, and the callback, if any,
\* has been called exactly once, with the number 100.
C20_RetrySuccess ==
    (/\ single.attempt >= 1 /\ single.retries >= 1
     /\ single.onProgress \in {"none", "returns"}) =>
        LET n == Len(single.postLog)
        IN /\ ((\A j \in 1..n : ~PostOk(single.postLog[j])) /\ n < single.retries) =>
                 /\ single.pc \in {"posting", "waiting"}
                 /\ single.pc = "posting" => single.posts = n + 1
                 /\ single.pc = "waiting" => single.posts = n
           /\ (n >= 1 /\ PostOk(single.postLog[n])) =>
                 /\ \A j \in 1..(n - 1) : ~PostOk(single.postLog[j])
                 /\ n <= single.retries
                 /\ single.posts = n
                 /\ single.initRequests = 1
                 /\ single.pc = "resolved"
                 /\ single.downloadURL = single.initFetch.data.downloadURL
                 /\ single.downloadURL = "https://download/1"
                 /\ single.progress =
                       (IF single.onProgress = "returns" THEN <<100>> ELSE <<>>)

C20_Witness ==
    /\ single.pc = "resolved"
    /\ single.retries = 3
    /\ single.onProgress = "returns"
    /\ Len(single.postLog) = 3
    /\ ~PostOk(single.postLog[1])
    /\ ~PostOk(single.postLog[2])
    /\ PostOk(single.postLog[3])
    /\ single.posts = 3
    /\ single.progress = <<100>>

\* C21: with retries = N >= 1 the signed target is requested once and at
\* most N storage POSTs are made; the k-th wait is k x 1000 ms and lies
\* between POST k and POST k+1, so there are at most N-1 waits and none
\* after the N-th attempt; when all N POSTs failed the call is rejected
\* with a FileUploadError, after N-1 waits, and the progress callback was
\* never called.
C21_RetryBoundBackoff ==
    (single.attempt >= 1 /\ single.retries >= 1) =>
        LET N == single.retries
            n == Len(single.postLog)
        IN /\ single.initRequests = 1
           /\ single.posts <= N
           /\ n <= single.posts
           /\ Len(single.waits) <= N - 1
           /\ \A k \in 1..Len(single.waits) : single.waits[k] = k * 1000
           /\ single.pc = "posting" =>
                 single.posts = Len(single.waits) + 1 /\ n = Len(single.waits)
           /\ single.pc = "waiting" =>
                 single.posts = Len(single.waits) /\ n = Len(single.waits)
           /\ (n = N /\ \A j \in 1..n : ~PostOk(single.postLog[j])) =>
                 /\ single.pc = "rejected"
                 /\ single.error.kind = "FileUploadError"
                 /\ Len(single.waits) = N - 1
                 /\ single.posts = N
                 /\ single.progress = <<>>

C21_Witness ==
    /\ single.pc = "rejected"
    /\ single.retries = 3
    /\ single.onProgress = "returns"
    /\ Len(single.postLog) = 3
    /\ \A j \in 1..3 : ~PostOk(single.postLog[j])
    /\ single.waits = <<1000, 2000>>
    /\ single.progress = <<>>

\* C22: with a progress callback, one update is emitted for each batch
\* whose PUTs all succeeded and none for any other batch; update k carries
\* the cumulative chunks and bytes of the first k batches, the totals, and
\* the percentage rounded to the nearest integer; the three figures never
\* decrease and never exceed the totals; the last update of an upload that
\* got through all its batches (at least one chunk) has the totals and 100.
\* Without a callback nothing is emitted.
C22_MultipartProgress ==
    LET K == multipart.maxConcurrentUploads
        N == Len(multipart.chunks)
        T == multipart.fileSize
        P == multipart.created.partSize
        log == multipart.progress
        succeeded ==
            {b \in 1..multipart.batches :
                \A j \in ((b - 1) * K + 1)..Min(b * K, N) :
                    \E e \in multipart.putLog : e.part = j /\ ~PutFailed(e)}
    IN /\ ~multipart.onProgress => log = <<>>
       /\ multipart.onProgress => Len(log) = Cardinality(succeeded)
       /\ \A k \in 1..Len(log) :
             /\ log[k].uploadedChunks = Min(k * K, N)
             /\ log[k].uploadedBytes = Min(log[k].uploadedChunks * P, T)
             /\ log[k].totalBytes = T
             /\ log[k].totalChunks = N
             /\ log[k].uploadedBytes <= T
             /\ log[k].uploadedChunks <= N
             /\ 2 * (100 * log[k].uploadedBytes - log[k].percentage * T) <= T
             /\ 2 * (log[k].percentage * T - 100 * log[k].uploadedBytes) <= T
             /\ k > 1 =>
                   /\ log[k - 1].uploadedBytes <= log[k].uploadedBytes
                   /\ log[k - 1].uploadedChunks <= log[k].uploadedChunks
                   /\ log[k - 1].percentage <= log[k].percentage
       /\ (multipart.onProgress /\ N >= 1
              /\ multipart.pc \in {"finalizing", "resolved"}) =>
             /\ Len(log) >= 1
             /\ log[Len(log)].uploadedBytes = T
             /\ log[Len(log)].uploadedChunks = N
             /\ log[Len(log)].percentage = 100

C22_Witness ==
    /\ multipart.pc = "rejected"
    /\ multipart.onProgress
    /\ multipart.fileSize = 3
    /\ multipart.maxConcurrentUploads = 1
    /\ Len(multipart.chunks) = 3
    /\ Len(multipart.progress) = 2
    /\ multipart.progress[2].percentage = 67
    /\ \E e \in multipart.putLog : e.part = 3 /\ PutFailed(e)

\* ------------------------------------------------- type resolution claims
\* C23: the suffix of a file name is its text after the last dot.  When
\* the name has no dot, or that text in lower case is not one of the 17
\* supported types, the suffix sent is 'txt' and the content type of the
\* single-shot payload is 'text/plain'; when it is a supported type, that
\* type in lower case is sent.  Every name gets a suffix of the list.
C23_UnknownTypeDowngraded ==
    LET name == naming.fileName
        dots == {k \in 1..Len(name) : name[k] = "."}
        last == CHOOSE k \in dots : \A j \in dots : j <= k
        after == SubSeq(name, last + 1, Len(name))
        lower == IF after[1] = "PNG" THEN "png"
                 ELSE IF after[1] = "Zip" THEN "zip" ELSE after[1]
        listed == /\ dots # {}
                  /\ Len(after) = 1
                  /\ after[1] \in {"png", "PNG", "Zip"}
    IN /\ Cardinality(supportedTypes) = 17
       /\ naming.pc # "idle" => naming.fileSuffix \in supportedTypes
       /\ naming.pc = "sent" =>
             /\ naming.sentSuffix = (IF listed THEN lower ELSE "txt")
             /\ (~listed /\ naming.uploader = "single") =>
                   naming.contentType = "text/plain"

C23_Witness ==
    /\ naming.pc = "sent"
    /\ naming.uploader = "single"
    /\ naming.fileName = <<"file", ".", "xyz">>
    /\ naming.sentSuffix = "txt"
    /\ naming.contentType = "text/plain"

\* C24: for a payload of size 0 the slicing gives no chunk, the
\* presigned-urls request carries an empty list of part numbers, no PUT is
\* sent and no progress update emitted, and once the presigned-urls request
\* returned success the complete request has been sent, with no parts.
C24_ZeroLengthPayload ==
    multipart.fileSize = 0 =>
        /\ multipart.chunks = <<>>
        /\ multipart.inflight = {}
        /\ multipart.putLog = {}
        /\ multipart.progress = <<>>
        /\ \A k \in RequestIndexes :
              /\ ~IsPut(k)
              /\ multipart.requests[k].partNumbers = <<>>
              /\ multipart.requests[k].parts = <<>>
        /\ FetchOk(multipart.createFetch) =>
              /\ Len(multipart.requests) >= 2
              /\ multipart.requests[2].name = "generate-presigned-urls"
        /\ FetchOk(multipart.urlsFetch) =>
              /\ Len(multipart.requests) = 3
              /\ IsComplete(3)

C24_Witness ==
    /\ multipart.fileSize = 0
    /\ multipart.onProgress
    /\ multipart.pc = "resolved"
    /\ Len(multipart.requests) = 3
    /\ multipart.requests[3].parts = <<>>
    /\ multipart.urlsReturned = <<>>

\* C26 as stated: when the multipart upload was rejected because a request
\* returned a non-success status (create, presigned-urls, or - every URL
\* being there and every failed PUT having ended with such a status - a
\* part PUT), the error carries that status in statusCode.
C26_StatusCarried ==
    multipart.pc = "rejected" =>
        LET failedPuts == {e \in multipart.putLog : PutFailed(e)}
        IN /\ FetchNotOk(multipart.createFetch) =>
                 multipart.error.statusCode = multipart.createFetch.status
           /\ FetchNotOk(multipart.urlsFetch) =>
                 multipart.error.statusCode = multipart.urlsFetch.status
           /\ (/\ FetchOk(multipart.urlsFetch)
               /\ Len(multipart.urlsReturned) >= Len(multipart.chunks)
               /\ ~CompleteSent
               /\ failedPuts # {}
               /\ \A e \in failedPuts : e.kind = "http" /\ e.status \notin 200..299) =>
                 \E e \in failedPuts : multipart.error.statusCode = e.status

\* ------------------------------------------------------ more poller claims
\* C27: a status read is issued only while elapsed <= timeout, and a
\* timeout rejection is never delivered for a read that was issued: when
\* the last read returned 'completed' with data, the wait is resolved with
\* that data even if the timeout had elapsed by the time the read returned.
C27_ReadNotInterrupted ==
    /\ reads >= 1 => issuedAt <= config.timeout
    /\ outcome.kind = "TaskTimeoutError" => pc = "rejected" /\ reads = nonTerminal
    /\ (ReadReturned /\ LastBody.state = "completed" /\ HasData(LastBody)) =>
          /\ pc = "resolved"
          /\ outcome.kind = "TaskResult"
          /\ outcome.data = LastBody.data

C27_Witness ==
    /\ pc = "resolved"
    /\ outcome.kind = "TaskResult"
    /\ issuedAt <= config.timeout
    /\ Elapsed > config.timeout
    /\ lastLatency > 0
    /\ nonTerminal >= 1

\* C29: at most one status read is in flight (every read issued but the
\* one in flight has returned a non-terminal state); the return of a read
\* never issues the next read in the same step; and the read that follows
\* a non-terminal one is issued at least one polling interval after that
\* one returned.
C29_RepollPacing ==
    [][/\ pc' \in {"reading", "sleeping"} =>
             reads' - nonTerminal' = (IF pc' = "reading" THEN 1 ELSE 0)
       /\ pc = "reading" => reads' = reads
       /\ reads' # reads =>
             /\ reads' = reads + 1
             /\ pc' = "reading"
             /\ pc = "sleeping" =>
                   issuedAt' >= (now - startTime) + config.pollingInterval]_vars

C29_Witness ==
    /\ pc = "reading"
    /\ reads = 2
    /\ nonTerminal = 1
    /\ lastLatency = 1
    /\ config.pollingInterval = 2
    /\ issuedAt = 3

\* C30: when the last status read that returned carried a state other
\* than 'completed', 'failed' and 'error' ('pending', 'processing', or the
\* unrecognised 'queued'), the wait is waiting for its timer or for the
\* next read, or it has been rejected by the timeout; it has not resolved
\* and has not been rejected for any other reason.
C30_UnknownStateNonTerminal ==
    (ReadReturned /\ LastBody.state \notin {"completed", "failed", "error"}) =>
        /\ outcome.kind \in {"none", "TaskTimeoutError"}
        /\ pc \in {"sleeping", "reading", "rejected"}
        /\ pc = "rejected" <=> outcome.kind = "TaskTimeoutError"
        /\ pc = "sleeping" => reads = nonTerminal
        /\ pc = "reading" => reads = nonTerminal + 1

C30_Witness ==
    /\ ReadReturned
    /\ LastBody.state = "queued"
    /\ nonTerminal = 2
    /\ reads = 2
    /\ pc = "rejected"
    /\ outcome.kind = "TaskTimeoutError"

\* C28: when every request returns and every armed timer fires, each call
\* of run or waitFor eventually settles: it resolves or rejects, whatever
\* the answers of the service, also when the task stays non-terminal.
C28_WaitSettles == <>(pc \in {"resolved", "rejected"})

C28_Witness ==
    /\ pc = "rejected"
    /\ outcome.kind = "TaskTimeoutError"
    /\ config.timeout = 2
    /\ config.pollingInterval = 1
    /\ reads = 3
    /\ nonTerminal = 3
    /\ now - startTime = 3

\* The call of the given kind running alone on a client with the fields
\* cfg and seeing the given events.
RECURSIVE Replay(_, _, _)
Replay(cfg, kind, events) ==
    IF events = <<>>
    THEN NewCall(kind)
    ELSE CallStep(cfg, Replay(cfg, kind, SubSeq(events, 1, Len(events) - 1)),
                  events[Len(events)])

C31_NoPutInFlightWhenSettled ==
    multipart.pc \in {"resolved", "rejected"} => multipart.inflight = {}

\* C32: when the presigned-urls response lists exactly one URL for each
\* requested part number, in whatever order, every PUT of the chunk with
\* index k goes to the URL signed for part k, and the result recorded for
\* part k carries the etag obtained from that URL.
C32_ChunkUrlPairing ==
    (/\ FetchOk(multipart.urlsFetch)
     /\ Len(multipart.urlsReturned) = Len(multipart.chunks)
     /\ \A j \in 1..Len(multipart.chunks) :
           Cardinality({a \in 1..Len(multipart.urlsReturned) :
                           multipart.urlsReturned[a].partNumber
                               = multipart.chunks[j].index}) = 1) =>
        /\ \A k \in RequestIndexes :
              IsPut(k) => multipart.requests[k].url = multipart.requests[k].part
        /\ \A e \in multipart.putLog : e.url = e.part
        /\ \A a \in 1..Len(multipart.results) :
              /\ multipart.results[a].etag.tag = multipart.results[a].partNumber
              /\ \E e \in multipart.putLog :
                    /\ e.part = multipart.results[a].partNumber
                    /\ ~PutFailed(e)

\* Three parts whose URLs came back in descending order, all stored.
C32_Witness ==
    /\ multipart.pc = "resolved"
    /\ Len(multipart.chunks) = 3
    /\ Len(multipart.urlsReturned) = 3
    /\ multipart.urlsReturned[1].partNumber = 3
    /\ multipart.urlsReturned[3].partNumber = 1
    /\ Len(multipart.results) = 3

\* C33: the part numbers of the presigned-urls request are exactly
\* 1, 2, ..., ceil(S/P) in ascending order, for the payload size S and the
\* part size P of the create response, and the uploadID and key of the
\* presigned-urls request and of the complete request are those of the
\* create response.
C33_AuthorizeRequest ==
    \A k \in RequestIndexes :
        LET request == multipart.requests[k]
            N == CeilDiv(multipart.fileSize, multipart.created.partSize)
        IN /\ request.name = "generate-presigned-urls" =>
                 /\ request.partNumbers = [j \in 1..N |-> j]
                 /\ request.uploadID = multipart.created.uploadID
                 /\ request.key = multipart.created.key
                 /\ request.uploadID \in UploadIDs
                 /\ request.key \in Keys
           /\ IsComplete(k) =>
                 /\ request.uploadID = multipart.created.uploadID
                 /\ request.key = multipart.created.key
                 /\ request.uploadID \in UploadIDs
                 /\ request.key \in Keys

\* Five bytes in parts of two: parts 1, 2, 3 requested, and finalized.
C33_Witness ==
    /\ multipart.pc = "resolved"
    /\ multipart.fileSize = 5
    /\ multipart.created.partSize = 2
    /\ Len(multipart.requests) >= 2
    /\ multipart.requests[2].partNumbers = <<1, 2, 3>>
    /\ IsComplete(Len(multipart.requests))

\* ------------------------------------------------ claims about the loops
\* C34 as stated: for every payload size and every part size the create
\* response can carry, 0 and negative values included, sliceFile
\* terminates: an upload whose requests all return gets to the
\* presigned-urls request.
C34_SlicingTerminates ==
    <>(loops.pc \in {"authorizing", "scheduling", "uploading", "finalizing"})

\* C35 as stated: for every value of the maxConcurrentUploads option, 0
\* and negative values included, and every chunk list, once the chunks are
\* there uploadChunksConcurrently finishes (after finitely many batches and
\* progress notifications) when every part request returns.
C35_SchedulerTerminates ==
    (loops.pc = "authorizing") ~> (loops.pc = "finalizing")

\* ------------------------------------------- more single-shot upload claims
\* C36 as stated: for every value of the retries option, the single-shot
\* upload resolves with the download URL only if a storage POST of the
\* call returned a success status.
C36_ResolvedOnlyAfterStored ==
    single.pc = "resolved" =>
        \E k \in 1..Len(single.postLog) : PostOk(single.postLog[k])

\* C37 as stated: once a storage POST of the single-shot upload has
\* returned a success status, the call sends no further storage POST and
\* resolves, whatever the progress callback does when it is called with 100.
C37_OneSuccessfulTransfer ==
    \A k \in 1..Len(single.postLog) :
        PostOk(single.postLog[k]) =>
            /\ single.posts = k
            /\ single.pc = "resolved"

\* --------------------------------------------------- the error type claim
\* C38 as stated: every rejection of MultipartUploader.upload and of
\* SingleFileUploader.upload is a FileUploadError (a FileTooLargeError is
\* one), and an exception thrown by the progress callback inside the call
\* is never swallowed into a successful result: a call whose callback has
\* thrown does not resolve.
C38_ClosedErrorType ==
    /\ multipart.pc = "rejected" =>
          multipart.error.kind \in {"FileUploadError", "FileTooLargeError"}
    /\ single.pc = "rejected" =>
          single.error.kind \in {"FileUploadError", "FileTooLargeError"}
    /\ (single.pc = "resolved" /\ single.onProgress \in {"throws", "throws once"}) =>
          single.progress = <<>>

====
